---- MODULE Spec2Model ----
(***************************************************************************)
(* Codegraph: the indexing pipeline (internal/indexer), the graph store    *)
(* (internal/db) and the LSP manager (internal/lsp), as a state machine.   *)
(*                                                                         *)
(* Strings are sequences of tokens, so that fmt.Sprintf("%s#%s.%s", ...)   *)
(* is a concatenation and not an opaque pair.  A project is two files, one *)
(* of language go and one of language python; the text of a file is        *)
(* one of a few named contents, for each of which the answer of the        *)
(* language server (documentSymbol, references) and the tree-sitter parse  *)
(* are tabulated below.                                                    *)
(***************************************************************************)
EXTENDS Integers, Sequences, FiniteSets, Bags, TLC

(***************************************************************************)
(* Bounds                                                                  *)
(***************************************************************************)
\* the clock (time.Now) runs from 0 to MaxNow; every run starts a new instant
MaxNow == 2
\* how many failures (of the store, the language servers, the file system,
\* the parser) happen in a behaviour
MaxFaults == 1

(***************************************************************************)
(* The project on disk                                                     *)
(***************************************************************************)
Files == {"a.go", "m.py"}

Language(f) == IF f = "m.py" THEN "python" ELSE "go"

RelPath(f) == <<f>>

\* the contents a file can have
FileContents(f) ==
    CASE f = "a.go" -> {"a1", "a2"}
      [] f = "m.py" -> {"p1"}

\* the contents the passes over a finished index are run on: a.go with a
\* recursive call on A's declaration line, calls in B to A and to X of
\* another package, a call to A outside any function, and T embedding U;
\* m.py with class K, its method M calling F, and class J(K, E) where E
\* is imported
PassContent(f) ==
    CASE f = "a.go" -> "a3"
      [] f = "m.py" -> "p2"

\* the contents an edit of content c can give: a.go loses B and T
NextContents(c) ==
    CASE c = "a1" -> {"a2"}
      [] OTHER -> {}

InitialContent(f) ==
    CASE f = "a.go" -> "a1"
      [] f = "m.py" -> "p1"

\* GroupByLanguage: the files of the list, by language, in list order
GroupByLanguage ==
    [l \in {"go", "python"} |->
        IF l = "go" THEN <<"a.go">> ELSE <<"m.py">>]

Languages == DOMAIN GroupByLanguage

(***************************************************************************)
(* LSP symbol kinds                                                        *)
(***************************************************************************)
SymbolKindFile == 1
SymbolKindModule == 2
SymbolKindNamespace == 3
SymbolKindPackage == 4
SymbolKindClass == 5
SymbolKindMethod == 6
SymbolKindProperty == 7
SymbolKindField == 8
SymbolKindConstructor == 9
SymbolKindEnum == 10
SymbolKindInterface == 11
SymbolKindFunction == 12
SymbolKindVariable == 13
SymbolKindConstant == 14
SymbolKindEnumMember == 22
SymbolKindStruct == 23
SymbolKindTypeParameter == 26

SymbolKindToString(k) ==
    CASE k = SymbolKindFile -> "file"
      [] k \in {SymbolKindModule, SymbolKindNamespace, SymbolKindPackage} -> "module"
      [] k \in {SymbolKindClass, SymbolKindStruct} -> "class"
      [] k = SymbolKindMethod -> "method"
      [] k \in {SymbolKindProperty, SymbolKindField} -> "field"
      [] k = SymbolKindConstructor -> "constructor"
      [] k = SymbolKindEnum -> "enum"
      [] k = SymbolKindInterface -> "interface"
      [] k = SymbolKindFunction -> "function"
      [] k = SymbolKindVariable -> "variable"
      [] k = SymbolKindConstant -> "constant"
      [] k = SymbolKindEnumMember -> "enum_member"
      [] k = SymbolKindTypeParameter -> "type_parameter"
      [] OTHER -> "unknown"

(***************************************************************************)
(* What the language server and the tree-sitter parser see in a content.   *)
(* Positions are 0-indexed, as in the protocol and in tree-sitter.         *)
(***************************************************************************)
DocSym(n, k, l, c, e, ch) ==
    [name |-> n, kind |-> k, line |-> l, character |-> c, endLine |-> e, children |-> ch]

\* the textDocument/documentSymbol answer: hierarchical DocumentSymbols,
\* line/character are SelectionRange.Start, endLine is Range.End.Line
DocumentSymbolsOf(c) ==
    CASE c = "a1" -> << DocSym(<<"A">>, SymbolKindFunction, 0, 5, 2, <<>>),
                        DocSym(<<"B">>, SymbolKindFunction, 4, 5, 6, <<>>),
                        DocSym(<<"T">>, SymbolKindStruct, 8, 5, 10,
                               << DocSym(<<"U">>, SymbolKindField, 9, 1, 9, <<>>) >>) >>
      [] c = "a2" -> << DocSym(<<"A">>, SymbolKindFunction, 0, 5, 2, <<>>) >>
      [] c = "p1" -> << DocSym(<<"K">>, SymbolKindClass, 0, 6, 3,
                               << DocSym(<<"M">>, SymbolKindMethod, 1, 8, 2, <<>>) >>) >>
      [] c = "a3" -> << DocSym(<<"A">>, SymbolKindFunction, 0, 5, 2, <<>>),
                        DocSym(<<"B">>, SymbolKindFunction, 4, 5, 7, <<>>),
                        DocSym(<<"T">>, SymbolKindStruct, 9, 5, 11,
                               << DocSym(<<"U">>, SymbolKindField, 10, 1, 10, <<>>) >>) >>
      [] c = "p2" -> << DocSym(<<"K">>, SymbolKindClass, 0, 6, 2,
                               << DocSym(<<"M">>, SymbolKindMethod, 1, 8, 2, <<>>) >>),
                        DocSym(<<"F">>, SymbolKindFunction, 5, 4, 6, <<>>),
                        DocSym(<<"J">>, SymbolKindClass, 8, 6, 9, <<>>) >>

Node(n, k, r, c, e, ch) ==
    [name |-> n, kind |-> k, row |-> r, column |-> c, endRow |-> e, children |-> ch]

\* the tree-sitter tree: name is <<>> for a node that defines no symbol,
\* kind is what extractGoSymbol / extractPythonSymbol give the node
TreeOf(c) ==
    CASE c = "a1" -> Node(<<>>, "", 0, 0, 10,
                        << Node(<<"A">>, "function", 0, 0, 2, <<>>),
                           Node(<<"B">>, "function", 4, 0, 6, <<>>),
                           Node(<<"T">>, "struct", 8, 0, 10, <<>>) >>)
      [] c = "a2" -> Node(<<>>, "", 0, 0, 2,
                        << Node(<<"A">>, "function", 0, 0, 2, <<>>) >>)
      [] c = "p1" -> Node(<<>>, "", 0, 0, 3,
                        << Node(<<"K">>, "class", 0, 0, 3,
                               << Node(<<"M">>, "function", 1, 4, 2, <<>>) >>) >>)
      [] c = "a3" -> Node(<<>>, "", 0, 0, 14,
                        << Node(<<"A">>, "function", 0, 0, 2, <<>>),
                           Node(<<"B">>, "function", 4, 0, 7, <<>>),
                           Node(<<"T">>, "struct", 9, 0, 11, <<>>) >>)
      [] c = "p2" -> Node(<<>>, "", 0, 0, 9,
                        << Node(<<"K">>, "class", 0, 0, 2,
                               << Node(<<"M">>, "function", 1, 4, 2, <<>>) >>),
                           Node(<<"F">>, "function", 5, 0, 6, <<>>),
                           Node(<<"J">>, "class", 8, 0, 9, <<>>) >>)

\* the call expressions of a content: where, and which definition is called
CallSitesOf(c) ==
    CASE c = "a1" -> { [line |-> 5, character |-> 1, callee |-> <<"A">>, calleeFile |-> "a.go"] }
      [] c = "a3" -> { [line |-> 0, character |-> 11, callee |-> <<"A">>, calleeFile |-> "a.go"],
                       [line |-> 5, character |-> 1, callee |-> <<"A">>, calleeFile |-> "a.go"],
                       [line |-> 6, character |-> 1, callee |-> <<"X">>, calleeFile |-> ""],
                       [line |-> 14, character |-> 8, callee |-> <<"A">>, calleeFile |-> "a.go"] }
      [] c = "p2" -> { [line |-> 2, character |-> 8, callee |-> <<"F">>, calleeFile |-> "m.py"] }
      [] OTHER -> {}

\* the inheritance found by extractHierarchy in a content (Go: embedded fields)
HeritageOf(c) ==
    CASE c = "a1" -> { [child |-> <<"T">>, parent |-> <<"U">>, relationship |-> "embeds"] }
      [] c = "a3" -> { [child |-> <<"T">>, parent |-> <<"U">>, relationship |-> "embeds"] }
      [] c = "p2" -> { [child |-> <<"J">>, parent |-> <<"K">>, relationship |-> "extends"],
                       [child |-> <<"J">>, parent |-> <<"E">>, relationship |-> "extends"] }
      [] OTHER -> {}

\* ORDER BY file: the files in the order of their paths
FileRank(f) == CASE f = "a.go" -> 1 [] f = "m.py" -> 2

(***************************************************************************)
(* The store (internal/db): four tables                                    *)
(***************************************************************************)
VARIABLES
    symbols,         \* table symbols: a set of rows, id is the primary key
    calls,           \* table calls: a bag of rows (the autoincrement id left out)
    type_hierarchy,  \* table type_hierarchy: a bag of rows (id left out)
    file_meta        \* table file_meta: a set of rows, path is the primary key

store == <<symbols, calls, type_hierarchy, file_meta>>

\* the environment: file contents, modification times, the clock, the
\* languages whose server cannot be started or initialized, and the number
\* of failures so far
VARIABLES content, mtime, now, broken, nfaults

env == <<content, mtime, now, broken, nfaults>>

\* lsp.Manager.clients: the languages with a registered client
VARIABLE clients

\* one IndexProject call: where it is, and its locals
VARIABLES
    pc,          \* "idle", "langs", "files", "callgraph", "done", "passed"
    force,       \* the force argument
    todo,        \* languages the first range loop has not visited yet
    language,    \* the language of the current iteration
    idx,         \* index of the next file in langFiles
    cgTodo,      \* languages the call-graph loop has not visited yet
    result       \* what IndexProject returned: "none", "nil", "clear_error"

proc == <<pc, force, todo, language, idx, cgTodo, result>>

\* what happened in the current run, and the store as it was at its start
VARIABLES
    outcome,   \* per file: "none", "skipped", "lsp", "tree-sitter", "error"
    faultLog,  \* the failures of this run: [kind, on, at]
    cgRan,     \* the languages whose call-graph pass got its client and ran
    atStart    \* the tables at the start of the run, and how the run began

hist == <<outcome, faultLog, cgRan, atStart>>

\* the most recent InsertSymbol call per id, since symbols was last emptied
VARIABLE lastInsert

\* per file: the modification time it had when it was last indexed with
\* success (file_meta written), -1 when it never was or the index was cleared
VARIABLE indexedAt

(***************************************************************************)
(* One lsp.Client: concurrent Calls, the reader goroutine, the server      *)
(***************************************************************************)
\* the goroutines that make Calls on the client
Callers == {"k1", "k2"}

VARIABLES
    nextID,    \* Client.nextID
    pending,   \* Client.pending: request id -> the Call whose channel is registered
    respChan,  \* per caller: the buffer of its response channel (capacity 1)
    mu,        \* who holds Client.mu: "free", "reader"
    call,      \* per caller: the Call it is making, [pc, id, ctx, ret, got]
    reader,    \* readResponses: [pc, frame, desync]
    server,    \* the child process: [alive, frames]
    rlog       \* what happened: [alloc, dropped, framing]

clientVars == <<nextID, pending, respChan, mu, call, reader, server, rlog>>

\* no frame
NoFrame == [kind |-> "none", id |-> 0]

\* a caller that is not in a Call
NoCall == [pc |-> "idle", id |-> 0, ctx |-> "background", ret |-> "none", got |-> NoFrame]

\* NewClient: the process is started, nothing is pending, the reader runs
ClientInit ==
    /\ nextID = 0
    /\ pending = <<>>
    /\ respChan = [k \in Callers |-> <<>>]
    /\ mu = "free"
    /\ call = [k \in Callers |-> NoCall]
    /\ reader = [pc |-> "reading", frame |-> NoFrame, desync |-> FALSE]
    /\ server = [alive |-> TRUE, frames |-> 0]
    /\ rlog = [alloc |-> <<>>, dropped |-> {}, framing |-> {}]

(***************************************************************************)
(* One lsp.Manager: concurrent GetClient, ShutdownLanguage, ShutdownAll    *)
(***************************************************************************)
\* the goroutines that call the manager
Threads == {"t1", "t2"}

VARIABLES
    mmu,       \* who holds Manager.mu: "free" or a thread
    registry,  \* Manager.clients: language -> the process of its client
    procs,     \* the processes started so far: [language, initialized, alive, steps]
    thread     \* per thread: the call it is in, [op, pc, language, proc, todo, reply, ret]

mgrVars == <<mmu, registry, procs, thread>>

\* a thread that is not in a call
NoOp == [op |-> "none", pc |-> "idle", language |-> "", proc |-> 0, todo |-> {},
         reply |-> "none", ret |-> "none"]

\* NewManager: no client, no process
ManagerInit ==
    /\ mmu = "free"
    /\ registry = <<>>
    /\ procs = <<>>
    /\ thread = [t \in Threads |-> NoOp]

(***************************************************************************)
(* SymbolKindToString applied to a number                                  *)
(***************************************************************************)
VARIABLES kindIn, kindOut

kindVars == <<kindIn, kindOut>>

\* no conversion is going on
KindIdle == kindIn = 0 /\ kindOut = "none"

(***************************************************************************)
(* A query put to the store, and a pass run over an indexed project        *)
(***************************************************************************)
VARIABLES
    query,    \* the query last made: [op, name, kind, languages, exact]
    answer    \* the results it can have given

queryVars == <<query, answer>>

\* no query has been made
NoQuery == [op |-> "none", name |-> <<>>, kind |-> "", languages |-> {}, exact |-> FALSE]

QueryIdle == query = NoQuery /\ answer = {}

VARIABLES
    pass,     \* the pass step taken last: [op, on, count], count the rows it wrote or removed
    npasses   \* the number of passes begun

passVars == <<pass, npasses>>

\* no pass has run
NoPass == [op |-> "none", on |-> "", count |-> 0]

PassIdle == pass = NoPass /\ npasses = 0

sideVars == <<queryVars, passVars>>

SideIdle == QueryIdle /\ PassIdle

\* the variables of the parts other than the indexing pipeline
aux == <<clientVars, mgrVars, kindVars, sideVars>>

vars == <<store, env, clients, proc, hist, lastInsert, indexedAt, aux>>

Fault(k, o, a) == [kind |-> k, on |-> o, at |-> a]

\* what the log of the run says
lspTried == {f \in Files : outcome[f] \in {"lsp", "tree-sitter", "error"}}
tsTried == {f \in Files : outcome[f] \in {"tree-sitter", "error"}}
metaWritten == {f \in Files : outcome[f] \in {"lsp", "tree-sitter"}}
lspFailed == {f \in Files : \E x \in faultLog : x.kind = "lsp" /\ x.on = f}
storeFailed == \E x \in faultLog : x.kind \in {"store", "tsstore"}
clientFailed == {l \in Languages : \E x \in faultLog : x.kind = "client" /\ x.on = l}
\* the context of the run has been cancelled
cancelled == \E x \in faultLog : x.kind = "cancel"
probe(f) ==
    IF \E x \in faultLog : x.kind = "stat" /\ x.on = f THEN "statfail"
    ELSE IF \E x \in faultLog : x.kind = "lookup" /\ x.on = f THEN "lookupfail"
    ELSE "ok"

(***************************************************************************)
(* Store operations                                                        *)
(***************************************************************************)
\* a store whose symbols table had no primary key: a plain INSERT
InsertSymbolPlain(tbl, s) == tbl \cup {s}

\* INSERT OR REPLACE INTO symbols: id is the primary key
InsertSymbol(tbl, s) == {r \in tbl : r.id # s.id} \cup {s}

\* INSERT OR REPLACE INTO file_meta: path is the primary key
UpdateFileMeta(tbl, path, modTime, lang) ==
    {r \in tbl : r.path # path}
        \cup {[path |-> path, mod_time |-> modTime, language |-> lang]}

\* SELECT ... FROM file_meta WHERE path = ?: the rows found (none: nil)
GetFileMeta(tbl, path) == {r \in tbl : r.path = path}

\* a ClearAll that leaves file_meta alone
ClearAllTablesNoMeta == <<"calls", "type_hierarchy", "symbols">>

\* the tables ClearAll deletes from, in its order
ClearAllTables == <<"calls", "type_hierarchy", "symbols", "file_meta">>

\* ClearAll when its failAt-th DELETE fails (0: none fails): is table t emptied?
Cleared(t, failAt) ==
    \E i \in 1..Len(ClearAllTables) :
        ClearAllTables[i] = t /\ (failAt = 0 \/ i < failAt)

\* InsertCall without the foreign keys: every row is accepted
InsertCallAlways(syms, c) == TRUE

\* InsertCall: INSERT INTO calls; both ids are foreign keys into symbols
InsertCallOk(syms, c) ==
    /\ \E s \in syms : s.id = c.caller_id
    /\ \E s \in syms : s.id = c.callee_id

\* GetFunctionSymbols: kind IN ('function', 'method') AND language = ?
GetFunctionSymbols(syms, lang) ==
    {s \in syms : s.kind \in {"function", "method"} /\ s.language = lang}

\* does the string s start with the string pre
HasPrefix(s, pre) == Len(s) >= Len(pre) /\ SubSeq(s, 1, Len(pre)) = pre

\* does the string s contain the string sub
Contains(s, sub) ==
    \E i \in 1..(Len(s) - Len(sub) + 1) : SubSeq(s, i, i + Len(sub) - 1) = sub

\* GetSymbolByName: name = ? OR name LIKE 'name(%' OR name LIKE '%.name(%',
\* and language IN languages when languages are given
GetSymbolByName(syms, name, languages) ==
    {s \in syms :
        /\ \/ s.name = name
           \/ HasPrefix(s.name, name \o <<"(">>)
           \/ Contains(s.name, <<".">> \o name \o <<"(">>)
        /\ languages # {} => s.language \in languages}

\* the rows that can come first under ORDER BY file, line
FirstRows(rows) ==
    {r \in rows : \A q \in rows :
        \/ FileRank(r.file) < FileRank(q.file)
        \/ FileRank(r.file) = FileRank(q.file) /\ r.line <= q.line}

\* InsertTypeHierarchy: child_id and parent_id are foreign keys into symbols
InsertTypeHierarchyOk(syms, th) ==
    /\ \E s \in syms : s.id = th.child_id
    /\ \E s \in syms : s.id = th.parent_id

(***************************************************************************)
(* Symbol extraction                                                       *)
(***************************************************************************)
\* fmt.Sprintf("%s#%s", RelPath, name) or ("%s#%s.%s", RelPath, scope, name)
SymbolID(f, scope, name) ==
    IF scope = <<>> THEN RelPath(f) \o <<"#">> \o name
    ELSE RelPath(f) \o <<"#">> \o scope \o <<".">> \o name

\* Indexer.storeSymbols: the rows it inserts, in the order it inserts them
RECURSIVE storeSymbols(_, _, _, _)
storeSymbols(f, syms, scope, t) ==
    IF syms = <<>> THEN <<>>
    ELSE LET sym == Head(syms)
             dbSym == [id |-> SymbolID(f, scope, sym.name),
                       name |-> sym.name,
                       kind |-> SymbolKindToString(sym.kind),
                       file |-> f,
                       line |-> sym.line + 1,
                       column |-> sym.character,
                       end_line |-> sym.endLine + 1,
                       scope |-> scope,
                       language |-> Language(f),
                       source |-> "lsp",
                       created_at |-> t]
             childScope == IF scope = <<>> THEN sym.name
                           ELSE scope \o <<".">> \o sym.name
         IN  <<dbSym>> \o storeSymbols(f, sym.children, childScope, t)
                       \o storeSymbols(f, Tail(syms), scope, t)

\* TreeSitterIndexer.nodeToSymbol: the row of a node that defines a symbol
nodeToSymbol(f, node, scope, t) ==
    [id |-> SymbolID(f, scope, node.name),
     name |-> node.name,
     kind |-> node.kind,
     file |-> f,
     line |-> node.row + 1,
     column |-> node.column,
     end_line |-> node.endRow + 1,
     scope |-> scope,
     language |-> Language(f),
     source |-> "tree-sitter",
     created_at |-> t]

\* TreeSitterIndexer.extractSymbols over a list of sibling nodes: a symbol
\* node becomes the scope of its children (its name, not the dotted path)
RECURSIVE extractSymbols(_, _, _, _)
extractSymbols(f, nodes, scope, t) ==
    IF nodes = <<>> THEN <<>>
    ELSE LET node == Head(nodes)
             isSym == node.name # <<>>
             mine == IF isSym THEN <<nodeToSymbol(f, node, scope, t)>> ELSE <<>>
             inner == IF isSym THEN node.name ELSE scope
         IN  mine \o extractSymbols(f, node.children, inner, t)
                  \o extractSymbols(f, Tail(nodes), scope, t)

\* the store after InsertSymbol of the first n rows of a list
RECURSIVE InsertFirst(_, _, _)
InsertFirst(tbl, rows, n) ==
    IF n = 0 \/ rows = <<>> THEN tbl
    ELSE InsertFirst(InsertSymbol(tbl, Head(rows)), Tail(rows), n - 1)

\* lastInsert after the same calls
RECURSIVE RecordFirst(_, _, _)
RecordFirst(last, rows, n) ==
    IF n = 0 \/ rows = <<>> THEN last
    ELSE LET r == Head(rows)
         IN  RecordFirst([i \in DOMAIN last \cup {r.id} |->
                             IF i = r.id THEN r ELSE last[i]],
                         Tail(rows), n - 1)

\* a skip rule that never skips
shouldSkipFileNever(f, p, tbl) == FALSE

\* a skip rule that asks for a stored time strictly after the modification time
shouldSkipFileStrict(f, p, tbl) ==
    /\ p = "ok"
    /\ GetFileMeta(tbl, f) # {}
    /\ \A meta \in GetFileMeta(tbl, f) : meta.mod_time > mtime[f]

\* Indexer.shouldSkipFile, given how os.Stat and GetFileMeta went
shouldSkipFile(f, p, tbl) ==
    /\ p = "ok"
    /\ GetFileMeta(tbl, f) # {}
    /\ \A meta \in GetFileMeta(tbl, f) : ~(mtime[f] > meta.mod_time)

(***************************************************************************)
(* Initial state: an initialized, empty store; nothing indexed yet         *)
(***************************************************************************)
NoRun == [f \in Files |-> "none"]

Snapshot(b2b) ==
    [symbols |-> symbols, calls |-> calls, type_hierarchy |-> type_hierarchy,
     file_meta |-> file_meta, indexedAt |-> indexedAt, backToBack |-> b2b]

IndexerInit ==
    /\ symbols = {} /\ calls = EmptyBag /\ type_hierarchy = EmptyBag /\ file_meta = {}
    /\ content = [f \in Files |-> InitialContent(f)]
    /\ mtime = [f \in Files |-> 0]
    /\ now = 0 /\ broken = {} /\ nfaults = 0
    /\ clients = {}
    /\ pc = "idle" /\ force = FALSE /\ todo = {} /\ language = "go" /\ idx = 1
    /\ cgTodo = {} /\ result = "none"
    /\ outcome = NoRun /\ faultLog = {} /\ cgRan = {}
    /\ atStart = [symbols |-> {}, calls |-> EmptyBag, type_hierarchy |-> EmptyBag,
                  file_meta |-> {}, indexedAt |-> [f \in Files |-> -1],
                  backToBack |-> FALSE]
    /\ lastInsert = <<>>
    /\ indexedAt = [f \in Files |-> -1]

Init == IndexerInit /\ ClientInit /\ ManagerInit /\ KindIdle /\ SideIdle

\* no run is going on: none was made, or a file was saved since the last
\* one ("idle"), or the last one returned ("done"), or the hierarchy pass
\* followed it ("passed")
Idle == pc \in {"idle", "done", "passed"}

(***************************************************************************)
(* The environment between runs                                            *)
(***************************************************************************)
\* the file f is saved with content c, after everything that happened so
\* far: its modification time is the instant that follows, in which the
\* next run starts (a file is saved once in an instant)
Touch(f, c) ==
    /\ Idle /\ now < MaxNow /\ mtime[f] <= now
    /\ c \in NextContents(content[f])
    /\ content' = [content EXCEPT ![f] = c]
    /\ mtime' = [mtime EXCEPT ![f] = now + 1]
    /\ pc' = "idle"
    /\ UNCHANGED aux
    /\ UNCHANGED <<store, now, broken, nfaults, clients, force, todo, language, idx,
                   cgTodo, result, hist, lastInsert, indexedAt>>

(***************************************************************************)
(* IndexProject                                                            *)
(***************************************************************************)
\* the run this one follows returned nil and no file was saved since
FollowsCleanRun == pc = "done" /\ result = "nil"

\* IndexProject(ctx, files, false) is called: no clearing, on to the loop.
\* br: the languages whose server will not start or initialize in this run
StartRun(br) ==
    /\ Idle /\ now < MaxNow
    /\ nfaults + Cardinality(br) <= MaxFaults
    /\ now' = now + 1 /\ broken' = br /\ nfaults' = nfaults + Cardinality(br)
    /\ force' = FALSE
    /\ pc' = "langs" /\ todo' = Languages /\ cgTodo' = {} /\ result' = "none"
    /\ outcome' = NoRun /\ faultLog' = {} /\ cgRan' = {}
    /\ atStart' = Snapshot(FollowsCleanRun)
    /\ UNCHANGED aux
    /\ UNCHANGED <<store, content, mtime, clients, language, idx,
                   lastInsert, indexedAt>>

\* Manager.ClearAll when its failAt-th DELETE fails (0: none fails)
ClearAll(failAt) ==
    /\ calls' = IF Cleared("calls", failAt) THEN EmptyBag ELSE calls
    /\ type_hierarchy' = IF Cleared("type_hierarchy", failAt) THEN EmptyBag ELSE type_hierarchy
    /\ symbols' = IF Cleared("symbols", failAt) THEN {} ELSE symbols
    /\ file_meta' = IF Cleared("file_meta", failAt) THEN {} ELSE file_meta

\* IndexProject(ctx, files, true) is called: ClearAll runs first; when it
\* fails the run returns the error
StartForceRun(br, failAt) ==
    /\ Idle /\ now < MaxNow
    /\ failAt # 0 => br = {}
    /\ LET n == Cardinality(br) + (IF failAt = 0 THEN 0 ELSE 1) IN
        /\ nfaults + n <= MaxFaults
        /\ nfaults' = nfaults + n
    /\ now' = now + 1 /\ broken' = br
    /\ force' = TRUE
    /\ ClearAll(failAt)
    /\ lastInsert' = IF Cleared("symbols", failAt) THEN <<>> ELSE lastInsert
    /\ indexedAt' = IF Cleared("file_meta", failAt)
                    THEN [f \in Files |-> -1] ELSE indexedAt
    /\ IF failAt = 0
       THEN pc' = "langs" /\ todo' = Languages /\ result' = "none" /\ faultLog' = {}
       ELSE /\ pc' = "done" /\ todo' = {} /\ result' = "clear_error"
            /\ faultLog' = {Fault("clear", "", failAt)}
    /\ cgTodo' = {} /\ cgRan' = {}
    /\ outcome' = NoRun
    /\ atStart' = Snapshot(FALSE)
    /\ UNCHANGED aux
    /\ UNCHANGED <<content, mtime, clients, language, idx>>

\* for language, langFiles := range groups: GetClient succeeds
GetClientOk(l) ==
    /\ pc = "langs" /\ l \in todo /\ l \notin broken
    /\ clients' = clients \cup {l}
    /\ pc' = "files" /\ language' = l /\ idx' = 1
    /\ todo' = todo \ {l}
    /\ UNCHANGED aux
    /\ UNCHANGED <<store, env, force, cgTodo, result, hist, lastInsert, indexedAt>>

\* a run that returns the GetClient error instead of skipping the language
GetClientFailReturns(l) ==
    /\ pc = "langs" /\ l \in todo /\ l \in broken /\ l \notin clients
    /\ faultLog' = faultLog \cup {Fault("client", l, 0)}
    /\ todo' = {}
    /\ pc' = "done" /\ result' = "client_error"
    /\ UNCHANGED aux
    /\ UNCHANGED <<store, env, clients, force, language, idx, cgTodo,
                   outcome, cgRan, atStart, lastInsert, indexedAt>>

\* GetClient fails (no configuration, the server does not start, or
\* initialize fails): the language is skipped
GetClientFail(l) ==
    /\ pc = "langs" /\ l \in todo /\ (l \in broken \/ cancelled) /\ l \notin clients
    /\ faultLog' = faultLog \cup {Fault("client", l, 0)}
    /\ todo' = todo \ {l}
    /\ UNCHANGED aux
    /\ UNCHANGED <<store, env, clients, pc, force, language, idx, cgTodo, result,
                   outcome, cgRan, atStart, lastInsert, indexedAt>>

langFiles == GroupByLanguage[language]

\* the ways os.Stat and GetFileMeta can go in shouldSkipFile
Probes == {"ok", "statfail", "lookupfail"}

\* if !force { if skip, _ := i.shouldSkipFile(file); skip { continue } }
Skips(f, p) == ~force /\ shouldSkipFile(f, p, file_meta)

\* shouldSkipFile is not called in a force run
ProbeFaults(f, p) ==
    IF p = "statfail" THEN {Fault("stat", f, 0)}
    ELSE IF p = "lookupfail" THEN {Fault("lookup", f, 0)}
    ELSE {}

\* the failures among xs that a cancelled context causes by itself: Call
\* returns ctx.Err() and ParseCtx gives up
CtxFailures(xs) == {x \in xs : cancelled /\ x.kind \in {"lsp", "ts"}}

\* the failures xs happen now
Fail(xs) ==
    /\ nfaults + Cardinality(xs \ CtxFailures(xs)) <= MaxFaults
    /\ nfaults' = nfaults + Cardinality(xs \ CtxFailures(xs))
    /\ faultLog' = faultLog \cup xs

\* the context is cancelled while the run is going on
Cancel ==
    /\ pc \in {"langs", "files", "callgraph"} /\ ~cancelled
    /\ Fail({Fault("cancel", "", 0)})
    /\ UNCHANGED aux
    /\ UNCHANGED <<store, content, mtime, now, broken, clients, proc,
                   outcome, cgRan, atStart, lastInsert, indexedAt>>

\* the file is unchanged since it was indexed: next file
SkipFile ==
    /\ pc = "files" /\ idx <= Len(langFiles)
    /\ LET f == langFiles[idx] IN
        /\ Skips(f, "ok")
        /\ outcome' = [outcome EXCEPT ![f] = "skipped"]
    /\ idx' = idx + 1
    /\ UNCHANGED aux
    /\ UNCHANGED <<store, env, clients, pc, force, todo, language, cgTodo, result,
                   faultLog, cgRan, atStart, lastInsert, indexedAt>>

\* indexFile succeeds: documentSymbol answered, every symbol stored,
\* file_meta updated
IndexFileLSP(p) ==
    /\ pc = "files" /\ idx <= Len(langFiles)
    /\ p \in Probes /\ (force => p = "ok")
    /\ LET f == langFiles[idx]
           rows == storeSymbols(f, DocumentSymbolsOf(content[f]), <<>>, now)
       IN
        /\ ~Skips(f, p)
        /\ Fail(ProbeFaults(f, p))
        /\ symbols' = InsertFirst(symbols, rows, Len(rows))
        /\ lastInsert' = RecordFirst(lastInsert, rows, Len(rows))
        /\ file_meta' = UpdateFileMeta(file_meta, f, now, Language(f))
        /\ outcome' = [outcome EXCEPT ![f] = "lsp"]
        /\ indexedAt' = [indexedAt EXCEPT ![f] = mtime[f]]
    /\ idx' = idx + 1
    /\ UNCHANGED aux
    /\ UNCHANGED <<calls, type_hierarchy, content, mtime, now, broken,
                   clients, pc, force, todo, language, cgTodo, result, cgRan, atStart>>

\* indexFile returns an error and TreeSitterIndexer.IndexFile is tried.
\*   lf = 0: the documentSymbol request failed
\*   lf = k > 0: the k-th store write of indexFile failed (the InsertSymbol
\*               of the k-th symbol, or UpdateFileMeta after the last one)
\*   tf = -1: tree-sitter could not read or parse the file
\*   tf = 0: tree-sitter stored every symbol and file_meta
\*   tf = k > 0: the k-th store write of IndexFile failed
IndexFileFallback(p, lf, tf) ==
    /\ pc = "files" /\ idx <= Len(langFiles)
    /\ p \in Probes /\ (force => p = "ok")
    /\ LET f == langFiles[idx]
           rowsL == storeSymbols(f, DocumentSymbolsOf(content[f]), <<>>, now)
           rowsT == extractSymbols(f, <<TreeOf(content[f])>>, <<>>, now)
           nL == IF lf = 0 THEN 0 ELSE lf - 1
           nT == IF tf = 0 THEN Len(rowsT) ELSE IF tf = -1 THEN 0 ELSE tf - 1
           afterL == InsertFirst(symbols, rowsL, nL)
           lastL == RecordFirst(lastInsert, rowsL, nL)
       IN
        /\ ~Skips(f, p)
        /\ lf \in 0..(Len(rowsL) + 1)
        /\ tf \in -1..(Len(rowsT) + 1)
        /\ Fail(ProbeFaults(f, p)
                \cup {IF lf = 0 THEN Fault("lsp", f, 0) ELSE Fault("store", f, lf)}
                \cup (IF tf = 0 THEN {}
                      ELSE IF tf = -1 THEN {Fault("ts", f, 0)}
                      ELSE {Fault("tsstore", f, tf)}))
        /\ symbols' = InsertFirst(afterL, rowsT, nT)
        /\ lastInsert' = RecordFirst(lastL, rowsT, nT)
        /\ file_meta' = IF tf = 0 THEN UpdateFileMeta(file_meta, f, now, Language(f))
                        ELSE file_meta
        /\ outcome' = [outcome EXCEPT ![f] = IF tf = 0 THEN "tree-sitter" ELSE "error"]
        /\ indexedAt' = IF tf = 0 THEN [indexedAt EXCEPT ![f] = mtime[f]] ELSE indexedAt
    /\ idx' = idx + 1
    /\ UNCHANGED aux
    /\ UNCHANGED <<calls, type_hierarchy, content, mtime, now, broken,
                   clients, pc, force, todo, language, cgTodo, result, cgRan, atStart>>

\* the files of the language are done: next language
EndLanguage ==
    /\ pc = "files" /\ idx > Len(langFiles)
    /\ pc' = "langs"
    /\ UNCHANGED aux
    /\ UNCHANGED <<store, env, clients, force, todo, language, idx, cgTodo, result,
                   hist, lastInsert, indexedAt>>

\* every language is done: on to the call graph
EndSymbols ==
    /\ pc = "langs" /\ todo = {}
    /\ pc' = "callgraph" /\ cgTodo' = Languages
    /\ UNCHANGED aux
    /\ UNCHANGED <<store, env, clients, force, todo, language, idx, result,
                   hist, lastInsert, indexedAt>>

(***************************************************************************)
(* The call-graph pass                                                     *)
(***************************************************************************)
\* the server's answer to textDocument/references at a position of file f
\* (includeDeclaration = false): the call sites, in the files of the same
\* language as they are now, of the definition whose name is at that position
References(f, line, character) ==
    LET here == storeSymbols(f, DocumentSymbolsOf(content[f]), <<>>, 0)
        defs == {here[i].name : i \in {j \in 1..Len(here) :
                    here[j].line - 1 = line /\ here[j].column = character}}
    IN  UNION { { [uri |-> g, line |-> s.line, character |-> s.character] :
                     s \in {x \in CallSitesOf(content[g]) :
                               x.callee \in defs /\ x.calleeFile = f} } :
                g \in {h \in Files : Language(h) = Language(f)} }

\* findContainingFunction without the test of the range: the first function
\* symbols of that file, wherever the line is
findContainingFunctionAnywhere(syms, file, line, lang) ==
    LET cover == {s \in GetFunctionSymbols(syms, lang) : s.file = file}
    IN  {s.id : s \in {x \in cover : \A y \in cover : x.line <= y.line}}

\* CallGraphIndexer.findContainingFunction: the ids of the first function
\* symbols (ORDER BY file, line) of that file whose range covers the line
findContainingFunction(syms, file, line, lang) ==
    LET cover == {s \in GetFunctionSymbols(syms, lang) :
                     s.file = file /\ line >= s.line /\ line <= s.end_line}
    IN  {s.id : s \in {x \in cover : \A y \in cover : x.line <= y.line}}

\* the rows IndexCallGraph inserts for the function symbols in asked
CallRows(syms, lang, asked) ==
    UNION { UNION { { [caller_id |-> callerID, callee_id |-> sym.id, file |-> ref.uri,
                       line |-> ref.line + 1, column |-> ref.character] :
                        callerID \in findContainingFunction(syms, ref.uri, ref.line + 1, lang) } :
                    ref \in {r \in References(sym.file, sym.line - 1, sym.column) :
                                ~(r.uri = sym.file /\ r.line + 1 = sym.line)} } :
            sym \in asked }

\* IndexCallGraph(language) with a client: references are asked for every
\* function symbol of the language; the requests of the symbols in bad fail
IndexCallGraph(l) ==
    /\ pc = "callgraph" /\ l \in cgTodo /\ l \notin broken
    /\ \E bad \in SUBSET GetFunctionSymbols(symbols, l) :
        /\ LET n == IF cancelled THEN 0 ELSE Cardinality(bad) IN
             /\ nfaults + n <= MaxFaults
             /\ nfaults' = nfaults + n
        /\ LET rows == {c \in CallRows(symbols, l, GetFunctionSymbols(symbols, l) \ bad) :
                           InsertCallOk(symbols, c)}
           IN  calls' = calls (+) SetToBag(rows)
    /\ clients' = clients \cup {l}
    /\ cgTodo' = cgTodo \ {l}
    /\ cgRan' = cgRan \cup {l}
    /\ UNCHANGED aux
    /\ UNCHANGED <<symbols, type_hierarchy, file_meta, content, mtime, now, broken,
                   pc, force, todo, language, idx, result, outcome, faultLog, atStart,
                   lastInsert, indexedAt>>

\* IndexCallGraph(language) when GetClient fails: the error is printed
IndexCallGraphFail(l) ==
    /\ pc = "callgraph" /\ l \in cgTodo /\ (l \in broken \/ cancelled) /\ l \notin clients
    /\ cgTodo' = cgTodo \ {l}
    /\ faultLog' = faultLog \cup {Fault("callgraph", l, 0)}
    /\ UNCHANGED aux
    /\ UNCHANGED <<store, env, clients, pc, force, todo, language, idx, result,
                   outcome, cgRan, atStart, lastInsert, indexedAt>>

\* the call-graph loop is over: ShutdownAll, return nil
Finish ==
    /\ pc = "callgraph" /\ cgTodo = {}
    /\ clients' = {}
    /\ pc' = "done" /\ result' = "nil"
    /\ UNCHANGED aux
    /\ UNCHANGED <<store, env, force, todo, language, idx, cgTodo, hist,
                   lastInsert, indexedAt>>

(***************************************************************************)
(* The type-hierarchy pass over one file (tree-sitter)                     *)
(***************************************************************************)
\* the symbols a parent name resolves to: those of the file's language,
\* and those of any language when there is none
ParentSymbols(syms, f, name) ==
    IF GetSymbolByName(syms, name, {Language(f)}) # {}
    THEN GetSymbolByName(syms, name, {Language(f)})
    ELSE GetSymbolByName(syms, name, {})

\* IndexHierarchyTreeSitter(file), run for one file after IndexProject
\* returned nil: every relationship whose parent name resolves is inserted
\* with the id of the first matching symbol
IndexHierarchyTreeSitter(f) ==
    /\ pc = "done" /\ result = "nil"
    /\ LET rels == {r \in HeritageOf(content[f]) :
                       ParentSymbols(symbols, f, r.parent) # {}}
       IN  \E first \in [rels -> {s.id : s \in symbols}] :
              /\ \A r \in rels :
                    first[r] \in {s.id : s \in FirstRows(ParentSymbols(symbols, f, r.parent))}
              /\ LET rows == {th \in {[child_id |-> SymbolID(f, <<>>, r.child),
                                       parent_id |-> first[r],
                                       relationship |-> r.relationship] : r \in rels} :
                                 InsertTypeHierarchyOk(symbols, th)}
                 IN  /\ rows # {}
                     /\ type_hierarchy' = type_hierarchy (+) SetToBag(rows)
    /\ pc' = "passed"
    /\ UNCHANGED aux
    /\ UNCHANGED <<symbols, calls, file_meta, env, clients, force, todo, language,
                   idx, cgTodo, result, hist, lastInsert, indexedAt>>

(***************************************************************************)
(* What the runs leave in the store                                        *)
(***************************************************************************)
\* the elements of a list
Range(seq) == {seq[i] : i \in DOMAIN seq}

\* the rows of file f in a symbols table
RowsOf(tbl, f) == {r \in tbl : r.file = f}

\* the ids the extraction that indexed f in this run produced
ExtractedIDs(f) ==
    IF outcome[f] = "lsp"
    THEN {r.id : r \in Range(storeSymbols(f, DocumentSymbolsOf(content[f]), <<>>, now))}
    ELSE {r.id : r \in Range(extractSymbols(f, <<TreeOf(content[f])>>, <<>>, now))}

\* f was indexed before this run and has been saved since
ModifiedSinceIndexing(f) ==
    atStart.indexedAt[f] # -1 /\ atStart.indexedAt[f] # mtime[f]

\* f was indexed before this run and has not been saved since
UnchangedSinceIndexing(f) ==
    atStart.indexedAt[f] # -1 /\ atStart.indexedAt[f] = mtime[f]

\* C1: the symbols table holds exactly one row per symbol id, and that row
\* carries the attributes of the most recent InsertSymbol call with that id
C1_UpsertById ==
    /\ \A r1, r2 \in symbols : r1.id = r2.id => r1 = r2
    /\ {r.id : r \in symbols} = DOMAIN lastInsert
    /\ \A r \in symbols : lastInsert[r.id] = r

\* C1: an id stored before the run has been inserted again in this run with
\* other attributes
C1_Witness ==
    \E r \in symbols : \E q \in atStart.symbols :
        q.id = r.id /\ q # r /\ r.created_at = now /\ outcome[r.file] \in {"lsp", "tree-sitter"}

\* C2: a non-force run that starts right after a clean run, with no file
\* saved in between and nothing failing, leaves as many symbols, calls and
\* type edges as the first run did, and the same file_meta timestamps
C2_BackToBackIdempotent ==
    (pc = "done" /\ result = "nil" /\ ~force /\ atStart.backToBack /\ nfaults = 0) =>
        /\ Cardinality(symbols) = Cardinality(atStart.symbols)
        /\ BagCardinality(calls) = BagCardinality(atStart.calls)
        /\ BagCardinality(type_hierarchy) = BagCardinality(atStart.type_hierarchy)
        /\ file_meta = atStart.file_meta

C4_ModifiedFileReflectsContent ==
    (pc = "done" /\ result = "nil" /\ ~force) =>
        \A f \in Files :
            (ModifiedSinceIndexing(f) /\ outcome[f] \in {"lsp", "tree-sitter"}) =>
                {r.id : r \in RowsOf(symbols, f)} = ExtractedIDs(f)

\* C5: in a force run all four tables are empty until the first file's
\* extraction starts, and a run whose ClearAll failed returns that error
\* with no file extracted and no row added
C5_ForceClearsFirst ==
    /\ (force /\ pc \in {"langs", "files"} /\ lspTried = {}) =>
            /\ symbols = {} /\ file_meta = {}
            /\ calls = EmptyBag /\ type_hierarchy = EmptyBag
    /\ (pc = "done" /\ \E x \in faultLog : x.kind = "clear") =>
            /\ result = "clear_error"
            /\ outcome = NoRun
            /\ symbols \subseteq atStart.symbols /\ file_meta \subseteq atStart.file_meta

\* C5: a force run over a store with rows in all four tables is about to
\* extract its first file
C5_Witness ==
    /\ force /\ pc = "files" /\ lspTried = {}
    /\ atStart.symbols # {} /\ atStart.file_meta # {}
    /\ atStart.calls # EmptyBag /\ atStart.type_hierarchy # EmptyBag

\* C5: a force run has returned the error of ClearAll
C5_WitnessClearError ==
    pc = "done" /\ result = "clear_error" /\ atStart.symbols # {}

C6_WitnessBoundary ==
    /\ ~force /\ pc # "idle"
    /\ \E f \in Files :
        /\ outcome[f] = "skipped"
        /\ \E m \in atStart.file_meta : m.path = f /\ m.mod_time = mtime[f]

\* C6: a file with a current file_meta row was re-indexed because the
\* file_meta lookup failed
C6_WitnessLookupFailure ==
    /\ ~force /\ pc # "idle"
    /\ \E f \in Files :
        /\ probe(f) = "lookupfail" /\ outcome[f] = "lsp"
        /\ \E m \in atStart.file_meta : m.path = f /\ m.mod_time >= mtime[f]

\* C7: a file whose LSP symbol extraction failed in this run gets no
\* file_meta row from this run, even when the tree-sitter fallback succeeded
C7_NoFileMetaAfterLspFailure ==
    \A f \in lspFailed :
        /\ f \notin metaWritten
        /\ \A m \in file_meta : m.path = f => m.mod_time < now

\* C8: when the run has returned, the files of a language whose GetClient
\* failed have been indexed by the tree-sitter fallback
C8_NoClientFallsBack ==
    (pc = "done" /\ result = "nil") =>
        \A f \in Files : Language(f) \in clientFailed => outcome[f] = "tree-sitter"

\* C9: a run in which GetClient failed for some language returns no error,
\* and has processed every file and run the call-graph pass of every
\* language whose client started
C9_OtherLanguagesContinue ==
    (pc = "done" /\ clientFailed # {}) =>
        /\ result = "nil"
        /\ \A f \in Files : Language(f) \notin clientFailed => outcome[f] # "none"
        /\ \A l \in Languages \ clientFailed : l \in cgRan

\* C9: GetClient failed for one language and the run indexed a file of
\* another and ran its call-graph pass
C9_Witness ==
    /\ pc = "done" /\ result = "nil"
    /\ \E l \in clientFailed : \E f \in Files :
        /\ Language(f) # l /\ outcome[f] = "lsp" /\ Language(f) \in cgRan
        /\ \E g \in Files : Language(g) = l /\ outcome[g] = "none"

\* C11: a run whose context was cancelled has returned an aborted
\* (non-success) status
C11_CancelAborts ==
    (pc = "done" /\ cancelled) => result # "nil"

\* the type edges of file f whose parent name resolves in the store
ResolvableHeritage(f) ==
    {r \in HeritageOf(content[f]) :
        /\ ParentSymbols(symbols, f, r.parent) # {}
        /\ \E s \in symbols : s.id = SymbolID(f, <<>>, r.child)}

\* C12: when a run has returned nil, the type-hierarchy pass has run after
\* the call-graph pass: the store holds a type edge for every inheritance
\* relationship of a file indexed in this run whose parent resolves
C12_HierarchyPassInRun ==
    (pc = "done" /\ result = "nil" /\ nfaults = 0) =>
        \A f \in Files :
            outcome[f] = "lsp" =>
                \A r \in ResolvableHeritage(f) :
                    \E th \in BagToSet(type_hierarchy) :
                        /\ th.child_id = SymbolID(f, <<>>, r.child)
                        /\ th.relationship = r.relationship

\* C10: a run in which a store write failed has returned that error
C10_StoreErrorReturned ==
    (pc = "done" /\ storeFailed) => result = "store_error"


Next ==
    \/ \E f \in Files : IndexHierarchyTreeSitter(f)
    \/ \E f \in Files : \E c \in FileContents(f) : Touch(f, c)
    \/ \E br \in SUBSET Languages : StartRun(br)
    \/ \E br \in SUBSET Languages : \E failAt \in 0..Len(ClearAllTables) : StartForceRun(br, failAt)
    \/ \E l \in Languages : GetClientOk(l)
    \/ \E l \in Languages : GetClientFail(l)
    \/ Cancel
    \/ SkipFile
    \/ \E p \in Probes : IndexFileLSP(p)
    \/ \E p \in Probes : \E lf \in 0..5 : \E tf \in -1..4 : IndexFileFallback(p, lf, tf)
    \/ EndLanguage
    \/ EndSymbols
    \/ \E l \in Languages : IndexCallGraph(l)
    \/ \E l \in Languages : IndexCallGraphFail(l)
    \/ Finish

Spec == Init /\ [][Next]_vars

(***************************************************************************)
(* Queries over the store                                                  *)
(***************************************************************************)
\* SQLite LIKE compares ASCII letters without regard to case
Fold(tok) ==
    CASE tok = "a" -> "A"
      [] tok = "b" -> "B"
      [] OTHER -> tok

FoldAll(str) == [i \in DOMAIN str |-> Fold(str[i])]

\* str LIKE '%' || suf
LikeSuffix(str, suf) ==
    /\ Len(str) >= Len(suf)
    /\ FoldAll(SubSeq(str, Len(str) - Len(suf) + 1, Len(str))) = FoldAll(suf)

\* str LIKE pre || '%'
LikePrefix(str, pre) == HasPrefix(FoldAll(str), FoldAll(pre))

\* str LIKE '%' || sub || '%'
LikeContains(str, sub) == Contains(FoldAll(str), FoldAll(sub))

\* str LIKE '%#%.' || name || '(%'
LikeHashDotParen(str, name) ==
    \E i \in 1..Len(str) :
        /\ str[i] = "#"
        /\ LikeContains(SubSeq(str, i + 1, Len(str)), <<".">> \o name \o <<"(">>)

\* the names the queries are made with
QueryNames == {<<"A">>, <<"a">>, <<"B">>, <<"U">>}

\* the language filters the queries are made with (none, or one language)
QueryLanguages == {{}, {"go"}}

\* the call site of a joined row
CallSite(r) == <<r.call.file, r.call.line, r.call.column>>

\* the rows of a join as a bag: each as often as its call row is stored
JoinBag(rows, cls) == [r \in rows |-> CopiesIn(r.call, cls)]

\* GROUP BY c.file, c.line, c.column: one row of each group, whichever
GroupBySite(rows) ==
    LET sites == {CallSite(r) : r \in rows}
    IN  {SetToBag({pick[g] : g \in sites}) :
            pick \in {p \in [sites -> rows] : \A g \in sites : CallSite(p[g]) = g}}

\* FROM symbols s JOIN calls c ON s.id = c.caller_id WHERE c.callee_id LIKE
\* '%#name' OR LIKE '%#%.name(%' OR LIKE '%.name' [AND s.language IN (...)]
CallersJoin(syms, cls, name, languages) ==
    {r \in [symbol : syms, call : BagToSet(cls)] :
        /\ r.symbol.id = r.call.caller_id
        /\ \/ LikeSuffix(r.call.callee_id, <<"#">> \o name)
           \/ LikeHashDotParen(r.call.callee_id, name)
           \/ LikeSuffix(r.call.callee_id, <<".">> \o name)
        /\ languages # {} => r.symbol.language \in languages}

\* the query of GetCallers without its GROUP BY
GetCallersUngrouped(syms, cls, name, languages) ==
    {JoinBag(CallersJoin(syms, cls, name, languages), cls)}

\* Manager.GetCallers: the results the query can give
GetCallers(syms, cls, name, languages) ==
    GroupBySite(CallersJoin(syms, cls, name, languages))

\* FROM symbols s JOIN calls c ON s.id = c.callee_id JOIN symbols caller ON
\* c.caller_id = caller.id WHERE caller.name = name OR LIKE 'name(%' OR
\* LIKE '%.name(%' [AND s.language IN (...)]
CalleesJoin(syms, cls, name, languages) ==
    {r \in [symbol : syms, call : BagToSet(cls)] :
        /\ r.symbol.id = r.call.callee_id
        /\ \E caller \in syms :
            /\ caller.id = r.call.caller_id
            /\ \/ caller.name = name
               \/ LikePrefix(caller.name, name \o <<"(">>)
               \/ LikeContains(caller.name, <<".">> \o name \o <<"(">>)
        /\ languages # {} => r.symbol.language \in languages}

\* Manager.GetCallees: the results the query can give
GetCallees(syms, cls, name, languages) ==
    GroupBySite(CalleesJoin(syms, cls, name, languages))

\* a result has at most one row per call site
OnePerSite(res) ==
    /\ \A r \in BagToSet(res) : CopiesIn(r, res) = 1
    /\ \A r1, r2 \in BagToSet(res) : CallSite(r1) = CallSite(r2) => r1 = r2

QSym(f, scope, name, kind, line) ==
    [id |-> SymbolID(f, scope, name), name |-> name, kind |-> kind, file |-> f,
     line |-> line, column |-> 0, end_line |-> line, scope |-> scope,
     language |-> Language(f), source |-> "lsp", created_at |-> 0]

\* the function the stored calls are made from
QCaller == QSym("a.go", <<>>, <<"B">>, "function", 1)

\* a name with its parameter list, as some analyzers report a method
MainWithParams == <<"main", "(", "String[]", ")">>

\* the symbols a store is drawn from: the caller, a method reported with
\* its parameter list at top level and in a class, a method in a class, a
\* function, and two modules
QuerySymbols ==
    { QCaller,
      QSym("a.go", <<>>, MainWithParams, "method", 2),
      QSym("a.go", <<"K">>, MainWithParams, "method", 3),
      QSym("m.py", <<"K">>, <<"A">>, "method", 4),
      QSym("a.go", <<>>, <<"A">>, "function", 5),
      QSym("m.py", <<>>, <<"A">>, "module", 6),
      QSym("m.py", <<>>, <<"main">>, "module", 7) }

\* the call row of a call from QCaller to callee, each at a site of its own
QCall(callee) ==
    [caller_id |-> QCaller.id, callee_id |-> callee.id, file |-> "a.go",
     line |-> 1, column |-> callee.line]

\* the state of everything but the four tables when no run is going on,
\* the files having contents c and the last run the outcomes o
PipelineIdle(c, o) ==
    /\ content = c
    /\ mtime = [f \in Files |-> 0]
    /\ now = 0 /\ broken = {} /\ nfaults = 0
    /\ clients = {}
    /\ pc = "idle" /\ force = FALSE /\ todo = {} /\ language = "go" /\ idx = 1
    /\ cgTodo = {} /\ result = "none"
    /\ outcome = o /\ faultLog = {} /\ cgRan = {}
    /\ atStart = [symbols |-> {}, calls |-> EmptyBag, type_hierarchy |-> EmptyBag,
                  file_meta |-> {}, indexedAt |-> [f \in Files |-> -1],
                  backToBack |-> FALSE]
    /\ lastInsert = <<>>
    /\ indexedAt = [f \in Files |-> -1]

\* a store that satisfies the schema: any of the symbols, and calls between
\* stored symbols only
QueriesInit ==
    /\ symbols \in SUBSET QuerySymbols
    /\ \E callees \in SUBSET symbols :
        calls = IF QCaller \in symbols THEN SetToBag({QCall(x) : x \in callees})
                ELSE EmptyBag
    /\ type_hierarchy = EmptyBag /\ file_meta = {}
    /\ PipelineIdle([f \in Files |-> InitialContent(f)], NoRun)
    /\ ClientInit /\ ManagerInit /\ KindIdle /\ SideIdle

\* the names asked for, with a language filter or without
AskedNames == {<<"main">>, <<"A">>}
AskedLanguages == {{}, {"go"}}

\* the variables of the parts other than a query
notQuery ==
    <<store, env, clients, proc, hist, lastInsert, indexedAt, clientVars, mgrVars,
      kindVars, passVars>>

\* callers(name, languages): Manager.GetCallers
AskCallers(name, languages) ==
    /\ query' = [NoQuery EXCEPT !.op = "callers", !.name = name, !.languages = languages]
    /\ answer' = GetCallers(symbols, calls, name, languages)
    /\ UNCHANGED notQuery

\* Manager.SearchSymbols: name LIKE '%name%', AND kind = ? when a kind is
\* given and AND kind != 'module' when none is, AND language IN (...)
SearchSymbols(syms, name, kind, languages) ==
    {s \in syms :
        /\ LikeContains(s.name, name)
        /\ IF kind # "" THEN s.kind = kind ELSE s.kind # "module"
        /\ languages # {} => s.language \in languages}

\* DatabaseTier.Search: GetSymbolByName when ExactMatch, else SearchSymbols
DatabaseTierSearch(syms, opts) ==
    IF opts.exact THEN GetSymbolByName(syms, opts.name, opts.languages)
    ELSE SearchSymbols(syms, opts.name, opts.kind, opts.languages)

\* search(query, kind, exact) through the database tier
AskSearch(name, kind, exact) ==
    /\ query' = [NoQuery EXCEPT !.op = "search", !.name = name, !.kind = kind,
                                !.exact = exact]
    /\ answer' = DatabaseTierSearch(symbols, query')
    /\ UNCHANGED notQuery

QueriesNext ==
    \/ \E name \in AskedNames : \E languages \in AskedLanguages : AskCallers(name, languages)
    \/ \E name \in AskedNames \cup {<<>>} : \E kind \in {"", "module"} :
          \E exact \in BOOLEAN : AskSearch(name, kind, exact)

SpecQueries == QueriesInit /\ [][QueriesNext]_vars

\* does the string end with suf, does it contain sub: letter for letter
EndsWith(str, suf) ==
    Len(str) >= Len(suf) /\ SubSeq(str, Len(str) - Len(suf) + 1, Len(str)) = suf

\* the three patterns of callers(name) as the specification words them:
\* the id ends with '#' name, or has '#', any text, name, '(' in it, or
\* ends with '.' name
SpecifiedCalleeMatch(id, name) ==
    \/ EndsWith(id, <<"#">> \o name)
    \/ \E i \in 1..Len(id) :
          id[i] = "#" /\ Contains(SubSeq(id, i + 1, Len(id)), name \o <<"(">>)
    \/ EndsWith(id, <<".">> \o name)

\* C21: callers(name) gives the call site of a stored call, whose caller
\* is stored and passes the language filter, exactly when the callee id
\* matches one of the three patterns
C21_CallersMatchThePatterns ==
    query.op = "callers" =>
        \A res \in answer :
            {CallSite(r) : r \in BagToSet(res)} =
                {<<c.file, c.line, c.column>> : c \in
                    {x \in BagToSet(calls) :
                        /\ \E s \in symbols :
                              /\ s.id = x.caller_id
                              /\ query.languages # {} => s.language \in query.languages
                        /\ SpecifiedCalleeMatch(x.callee_id, query.name)}}

\* does a symbol match the name of a search, exact or by substring
SearchMatches(s, q) ==
    IF q.exact THEN s \in GetSymbolByName({s}, q.name, {})
    ELSE LikeContains(s.name, q.name)

\* C22: a search with no kind filter returns no symbol of kind module; a
\* search with kind module returns exactly the module symbols whose name
\* matches the query, all of them for the empty query
C22_ModulesOnlyOnRequest ==
    query.op = "search" =>
        /\ query.kind = "" => \A s \in answer : s.kind # "module"
        /\ query.kind = "module" =>
              answer = {s \in symbols : s.kind = "module" /\ SearchMatches(s, query)}

(***************************************************************************)
(* SymbolKindToString over the integers                                    *)
(***************************************************************************)
\* the numbers tried run from -1 to MaxKind
MaxKind == 60

KindInputs == -1..MaxKind

\* the kinds the specification allows in the store
KindVocabulary ==
    {"function", "method", "class", "interface", "struct", "enum", "enum_member",
     "type", "module", "field", "constructor", "variable", "constant",
     "type_parameter", "unknown"}

KindsInit ==
    /\ IndexerInit /\ ClientInit /\ ManagerInit /\ SideIdle
    /\ kindIn \in KindInputs /\ kindOut = "none"

\* Kind: SymbolKindToString(sym.Kind) in storeSymbols
Convert ==
    /\ kindOut = "none"
    /\ kindOut' = SymbolKindToString(kindIn)
    /\ UNCHANGED <<kindIn, store, env, clients, proc, hist, lastInsert, indexedAt,
                   clientVars, mgrVars, sideVars>>

KindsNext == Convert

SpecKinds == KindsInit /\ [][KindsNext]_vars

\* C19: SymbolKindToString returns a member of the kind vocabulary for
\* every number, and unknown for every number outside 1..26
C19_KindInVocabulary ==
    kindOut # "none" =>
        /\ kindOut \in KindVocabulary
        /\ kindIn \notin 1..26 => kindOut = "unknown"

(***************************************************************************)
(* lsp.Client: Call, send, readResponses                                   *)
(***************************************************************************)
\* every caller makes one Call: the ids a frame can carry
IDs == 1..Cardinality(Callers)

\* the server writes at most MaxFrames frames
MaxFrames == 2

\* a context with no deadline, or one that can expire or be cancelled
CtxKinds == {"background", "deadline"}

\* an id that is always the same
AddInt64Same(n) == 1

\* atomic.AddInt64(&c.nextID, 1): the new value
AddInt64(n) == n + 1

\* the frames that unmarshal into a Response with ID > 0: a response, an
\* error response, a server-to-client request (it has an id and a method)
Identified ==
    {[kind |-> kd, id |-> i] : kd \in {"response", "error", "request"}, i \in IDs}

\* what the server can write: a frame with an id, a notification, a frame
\* with a malformed Content-Length, a body shorter than declared, a body
\* that is not JSON, end of file in a body, end of file between frames
ServerFrames ==
    Identified \cup
    {[kind |-> kd, id |-> 0] :
        kd \in {"notification", "badheader", "shortbody", "badjson", "eofbody", "eof"}}

\* the framing errors
FramingErrors == {"badheader", "shortbody", "eofbody"}

\* m with key i set to v
Put(m, i, v) == [j \in DOMAIN m \cup {i} |-> IF j = i THEN v ELSE m[j]]

\* a delete that removes nothing
DeleteNothing(m, i) == m

\* delete(m, i)
Delete(m, i) == [j \in DOMAIN m \ {i} |-> m[j]]

\* the variables of the parts other than the client
notClient ==
    <<store, env, clients, proc, hist, lastInsert, indexedAt, mgrVars, kindVars, sideVars>>

\* Call, line 212: the id is allocated; the response channel is made
CallStart(k, ctx) ==
    /\ call[k].pc = "idle"
    /\ nextID' = AddInt64(nextID)
    /\ call' = [call EXCEPT ![k] = [pc |-> "register", id |-> nextID', ctx |-> ctx,
                                    ret |-> "none", got |-> NoFrame]]
    /\ respChan' = [respChan EXCEPT ![k] = <<>>]
    /\ rlog' = [rlog EXCEPT !.alloc = Append(@, nextID')]
    /\ UNCHANGED notClient
    /\ UNCHANGED <<pending, mu, reader, server>>

\* Call, lines 223-225: c.pending[id] = respChan, under the mutex
Register(k) ==
    /\ call[k].pc = "register" /\ mu = "free"
    /\ pending' = Put(pending, call[k].id, k)
    /\ call' = [call EXCEPT ![k].pc = "send"]
    /\ UNCHANGED notClient
    /\ UNCHANGED <<nextID, respChan, mu, reader, server, rlog>>

\* Call, lines 234-236: send under the mutex; writing to the pipe of a
\* dead process fails and Call returns the error
Send(k) ==
    /\ call[k].pc = "send" /\ mu = "free"
    /\ call' = [call EXCEPT ![k] =
                   IF server.alive THEN [@ EXCEPT !.pc = "wait"]
                   ELSE [@ EXCEPT !.pc = "cleanup", !.ret = "senderr"]]
    /\ UNCHANGED notClient
    /\ UNCHANGED <<nextID, pending, respChan, mu, reader, server, rlog>>

\* Call, lines 242-249: case resp := <-respChan
Receive(k) ==
    /\ call[k].pc = "wait" /\ respChan[k] # <<>>
    /\ LET resp == Head(respChan[k]) IN
        call' = [call EXCEPT ![k] = [@ EXCEPT !.pc = "cleanup", !.got = resp,
                    !.ret = IF resp.kind = "error" THEN "rpcerr" ELSE "nil"]]
    /\ respChan' = [respChan EXCEPT ![k] = Tail(@)]
    /\ UNCHANGED notClient
    /\ UNCHANGED <<nextID, pending, mu, reader, server, rlog>>

\* Call, lines 240-241: case <-ctx.Done()
CtxDone(k) ==
    /\ call[k].pc = "wait" /\ call[k].ctx = "deadline"
    /\ call' = [call EXCEPT ![k] = [@ EXCEPT !.pc = "cleanup", !.ret = "ctx"]]
    /\ UNCHANGED notClient
    /\ UNCHANGED <<nextID, pending, respChan, mu, reader, server, rlog>>

\* Call, lines 227-231: the deferred delete(c.pending, id), under the mutex
Cleanup(k) ==
    /\ call[k].pc = "cleanup" /\ mu = "free"
    /\ pending' = Delete(pending, call[k].id)
    /\ call' = [call EXCEPT ![k].pc = "returned"]
    /\ UNCHANGED notClient
    /\ UNCHANGED <<nextID, respChan, mu, reader, server, rlog>>

\* readResponses, lines 288-319: the next frame is read.  End of file
\* makes it return; a Content-Length that does not parse counts as 0 and
\* the loop continues; a short body swallows what follows, does not
\* unmarshal, and the loop continues; a frame with ID > 0 goes to dispatch
ReadFrame(f) ==
    /\ reader.pc = "reading" /\ server.alive /\ server.frames < MaxFrames
    /\ f \in ServerFrames
    /\ server' = [alive |-> f.kind \notin {"eof", "eofbody"}, frames |-> server.frames + 1]
    /\ reader' =
         CASE f.kind \in {"eof", "eofbody"} -> [reader EXCEPT !.pc = "stopped"]
           [] f.kind \in {"badheader", "shortbody"} -> [reader EXCEPT !.desync = TRUE]
           [] f.kind \in {"badjson", "notification"} -> reader
           [] OTHER -> [reader EXCEPT !.pc = "dispatch", !.frame = f]
    /\ rlog' = IF f.kind \in FramingErrors
               THEN [rlog EXCEPT !.framing = @ \cup {f.kind}] ELSE rlog
    /\ UNCHANGED notClient
    /\ UNCHANGED <<nextID, pending, respChan, mu, call>>

\* after a framing error that did not stop the reader, the bytes of a
\* later frame are read as header lines and the frame is lost
LoseFrame(f) ==
    /\ reader.pc = "reading" /\ reader.desync
    /\ server.alive /\ server.frames < MaxFrames
    /\ f \in Identified
    /\ server' = [server EXCEPT !.frames = @ + 1]
    /\ rlog' = [rlog EXCEPT !.dropped = @ \cup {f}]
    /\ UNCHANGED notClient
    /\ UNCHANGED <<nextID, pending, respChan, mu, call, reader>>

\* readResponses, lines 322-328: under the mutex, the frame is sent on the
\* channel registered for its id, if there is one; the send blocks, with
\* the mutex held, when the channel already holds a frame
Dispatch ==
    /\ reader.pc = "dispatch" /\ mu = "free"
    /\ LET f == reader.frame IN
        IF f.id \in DOMAIN pending
        THEN IF respChan[pending[f.id]] = <<>>
             THEN /\ respChan' = [respChan EXCEPT ![pending[f.id]] = <<f>>]
                  /\ reader' = [reader EXCEPT !.pc = "reading", !.frame = NoFrame]
                  /\ UNCHANGED <<mu, rlog>>
             ELSE /\ mu' = "reader"
                  /\ reader' = [reader EXCEPT !.pc = "blocked"]
                  /\ UNCHANGED <<respChan, rlog>>
        ELSE /\ rlog' = [rlog EXCEPT !.dropped = @ \cup {f}]
             /\ reader' = [reader EXCEPT !.pc = "reading", !.frame = NoFrame]
             /\ UNCHANGED <<respChan, mu>>
    /\ UNCHANGED notClient
    /\ UNCHANGED <<nextID, pending, call, server>>

\* the blocked send goes through once the channel has been emptied
Unblock ==
    /\ reader.pc = "blocked"
    /\ respChan[pending[reader.frame.id]] = <<>>
    /\ respChan' = [respChan EXCEPT ![pending[reader.frame.id]] = <<reader.frame>>]
    /\ reader' = [reader EXCEPT !.pc = "reading", !.frame = NoFrame]
    /\ mu' = "free"
    /\ UNCHANGED notClient
    /\ UNCHANGED <<nextID, pending, call, server, rlog>>

ClientInitAll == IndexerInit /\ ClientInit /\ ManagerInit /\ KindIdle /\ SideIdle

ClientNext ==
    \/ \E k \in Callers : \E ctx \in CtxKinds : CallStart(k, ctx)
    \/ \E k \in Callers : Register(k)
    \/ \E k \in Callers : Send(k)
    \/ \E k \in Callers : Receive(k)
    \/ \E k \in Callers : CtxDone(k)
    \/ \E k \in Callers : Cleanup(k)
    \/ \E f \in ServerFrames : ReadFrame(f)
    \/ \E f \in ServerFrames : LoseFrame(f)
    \/ Dispatch
    \/ Unblock

SpecClient == ClientInitAll /\ [][ClientNext]_vars

\* the steps of a started Call and of the reader are goroutine steps the
\* Go scheduler runs when they are enabled, and a deadline expires; the
\* server is free to write nothing more
ClientFairness ==
    /\ \A k \in Callers :
        /\ WF_vars(Register(k)) /\ WF_vars(Send(k)) /\ WF_vars(Receive(k))
        /\ WF_vars(CtxDone(k)) /\ WF_vars(Cleanup(k))
    /\ WF_vars(Dispatch) /\ WF_vars(Unblock)

SpecClientLive == ClientInitAll /\ [][ClientNext]_vars /\ ClientFairness

\* C13: when the analyzer is gone (end of file on its stdout) while a Call
\* waits for its response, the Call eventually returns, whatever its
\* context, a context with no deadline included
C13_DeadAnalyzerReleasesCalls ==
    \A k \in Callers :
        (call[k].pc = "wait" /\ ~server.alive) ~> (call[k].pc = "returned")

\* C14: the ids of the Calls are distinct and increase in the order of
\* allocation; a frame reaches only the Call registered under the id the
\* frame carries, and the pending map sends an id to the Call that owns it
C14_IdsDistinctAndDeliveryById ==
    /\ \A i, j \in DOMAIN rlog.alloc : i < j => rlog.alloc[i] < rlog.alloc[j]
    /\ \A k1, k2 \in Callers :
        (k1 # k2 /\ call[k1].id # 0 /\ call[k2].id # 0) => call[k1].id # call[k2].id
    /\ \A i \in DOMAIN pending : call[pending[i]].id = i
    /\ \A k \in Callers :
        /\ \A n \in DOMAIN respChan[k] : respChan[k][n].id = call[k].id
        /\ call[k].got # NoFrame => call[k].got.id = call[k].id

\* C14 witness: a Call gave up on its context and returned, the response
\* to it came afterwards and was dropped, and another Call received the
\* response that carries its own id
C14_Witness ==
    \E k1, k2 \in Callers :
        /\ k1 # k2
        /\ call[k1].pc = "returned" /\ call[k1].ret = "ctx"
        /\ [kind |-> "response", id |-> call[k1].id] \in rlog.dropped
        /\ call[k2].pc = "returned" /\ call[k2].ret = "nil"
        /\ call[k2].got = [kind |-> "response", id |-> call[k2].id]

\* C15: what a Call receives as its response is never a server-to-client
\* request nor a notification
C15_OnlyResponsesDelivered ==
    \A k \in Callers :
        /\ call[k].got.kind \notin {"request", "notification"}
        /\ \A n \in DOMAIN respChan[k] :
            respChan[k][n].kind \notin {"request", "notification"}

\* C16: once a framing error has been read (a malformed Content-Length, a
\* body shorter than declared, end of file inside a body) the reader has
\* stopped reading
C16_FramingErrorStopsReader ==
    rlog.framing # {} => reader.pc = "stopped"

\* C25: once a Call has returned, by a response, by its context or by a
\* send error, the pending map has no entry for its id; when every Call
\* made has returned the pending map is empty
C25_NoPendingEntryAfterReturn ==
    /\ \A k \in Callers : call[k].pc = "returned" => call[k].id \notin DOMAIN pending
    /\ (\A k \in Callers : call[k].pc \in {"idle", "returned"}) => pending = <<>>

\* C25 witness: one Call has returned on its context and the other with a
\* response, both had been registered, and the pending map is empty
C25_Witness ==
    \E k1, k2 \in Callers :
        /\ call[k1].pc = "returned" /\ call[k1].ret = "ctx"
        /\ call[k2].pc = "returned" /\ call[k2].ret = "nil"
        /\ pending = <<>>

\* C25 witness: a Call has returned with the error of send
C25_WitnessSendError ==
    \E k \in Callers :
        /\ call[k].pc = "returned" /\ call[k].ret = "senderr"
        /\ call[k].id \notin DOMAIN pending

\* C28: the reader is never blocked in its send on a response channel
\* while it holds the client mutex
C28_ReaderNeverBlocksHoldingMutex ==
    ~(reader.pc = "blocked" /\ mu = "reader")

(***************************************************************************)
(* lsp.Manager: GetClient, ShutdownLanguage, ShutdownAll; Client.Shutdown  *)
(***************************************************************************)
\* at most MaxProcs analyzer processes are started
MaxProcs == 2

\* the languages of cfg.LSP, and the languages GetClient is asked for
Configured == Languages
Requested == Languages \cup {"ruby"}

ManagerOps == {"GetClient", "ShutdownLanguage", "ShutdownAll"}

\* how the shutdown request of Client.Shutdown can end: a response, the
\* deadline of the context, a write to the pipe of a dead process
Replies == {"answered", "deadline", "senderr"}

\* the steps of Client.Shutdown on an initialized client, in source order
ShutdownOrder == <<"shutdown", "exit", "closeStdin", "closeStdout", "wait">>

\* a process NewClient has just started
NewProc(l) ==
    [language |-> l, initialized |-> FALSE, alive |-> TRUE, steps |-> <<>>]

\* the variables of the parts other than the manager
notManager ==
    <<store, env, clients, proc, hist, lastInsert, indexedAt, clientVars, kindVars, sideVars>>

\* a mutex that never makes anyone wait
AcquirableAlways == TRUE

\* m.mu.Lock() goes through when nobody holds the mutex
Acquirable == mmu = "free"

\* a Shutdown that gives up when its shutdown request failed
AfterShutdownCallStrict(reply) == IF reply = "answered" THEN "sd_exit" ELSE "sd_done"

\* Client.Shutdown, lines 194-197: the error of the Call is ignored
AfterShutdownCall(reply) == "sd_exit"

\* a goroutine calls GetClient(l), ShutdownLanguage(l) or ShutdownAll()
Enter(t, op, l) ==
    /\ thread[t].pc \in {"idle", "returned"}
    /\ op \in ManagerOps /\ l \in Requested
    /\ op = "ShutdownAll" => l = "ruby"
    /\ op = "ShutdownLanguage" => l \in Configured
    /\ thread' = [thread EXCEPT ![t] =
                     [NoOp EXCEPT !.op = op, !.pc = "lock",
                                  !.language = IF op = "ShutdownAll" THEN "" ELSE l]]
    /\ UNCHANGED notManager
    /\ UNCHANGED <<mmu, registry, procs>>

\* m.mu.Lock(), the first statement of the three methods
Lock(t) ==
    /\ thread[t].pc = "lock" /\ Acquirable
    /\ mmu' = t
    /\ thread' = [thread EXCEPT ![t].pc = "body"]
    /\ UNCHANGED notManager
    /\ UNCHANGED <<registry, procs>>

\* the deferred m.mu.Unlock(): the method returns; the client GetClient
\* returned stays with the goroutine
Unlock(t) ==
    /\ thread[t].pc = "unlock"
    /\ mmu' = "free"
    /\ thread' = [thread EXCEPT ![t] =
                     IF @.ret = "ok" THEN [@ EXCEPT !.pc = "returned"] ELSE NoOp]
    /\ UNCHANGED notManager
    /\ UNCHANGED <<registry, procs>>

\* GetClient, lines 36-44: the registered client is returned; a language
\* without configuration is an error
GetClientLookup(t) ==
    /\ thread[t].pc = "body" /\ thread[t].op = "GetClient"
    /\ LET l == thread[t].language IN
        thread' = [thread EXCEPT ![t] =
            IF l \in DOMAIN registry
            THEN [@ EXCEPT !.pc = "unlock", !.proc = registry[l], !.ret = "ok"]
            ELSE IF l \notin Configured
            THEN [@ EXCEPT !.pc = "unlock", !.ret = "noconfig"]
            ELSE [@ EXCEPT !.pc = "start"]]
    /\ UNCHANGED notManager
    /\ UNCHANGED <<mmu, registry, procs>>

\* GetClient, lines 47-50: NewClient starts the process, or fails to
NewClient(t, ok) ==
    /\ thread[t].pc = "start"
    /\ IF ok
       THEN /\ Len(procs) < MaxProcs
            /\ procs' = Append(procs, NewProc(thread[t].language))
            /\ thread' = [thread EXCEPT ![t].pc = "init", ![t].proc = Len(procs) + 1]
       ELSE /\ thread' = [thread EXCEPT ![t].pc = "unlock", ![t].ret = "starterr"]
            /\ UNCHANGED procs
    /\ UNCHANGED notManager
    /\ UNCHANGED <<mmu, registry>>

\* GetClient, lines 53-59: Initialize succeeds and sets c.initialized, or
\* it fails; then client.Shutdown returns at once, the client not being
\* initialized (Client.Shutdown, lines 189-191), and GetClient returns
\* the error
Initialize(t, ok) ==
    /\ thread[t].pc = "init"
    /\ IF ok
       THEN /\ procs[thread[t].proc].alive
            /\ procs' = [procs EXCEPT ![thread[t].proc].initialized = TRUE]
            /\ thread' = [thread EXCEPT ![t].pc = "register"]
       ELSE /\ thread' = [thread EXCEPT ![t].pc = "unlock", ![t].ret = "initerr"]
            /\ UNCHANGED procs
    /\ UNCHANGED notManager
    /\ UNCHANGED <<mmu, registry>>

\* GetClient, lines 61-62: m.clients[language] = client
RegisterClient(t) ==
    /\ thread[t].pc = "register"
    /\ registry' = Put(registry, thread[t].language, thread[t].proc)
    /\ thread' = [thread EXCEPT ![t].pc = "unlock", ![t].ret = "ok"]
    /\ UNCHANGED notManager
    /\ UNCHANGED <<mmu, procs>>

\* ShutdownLanguage, line 86: only a registered client is shut down
ShutdownLanguageLookup(t) ==
    /\ thread[t].pc = "body" /\ thread[t].op = "ShutdownLanguage"
    /\ LET l == thread[t].language IN
        thread' = [thread EXCEPT ![t] =
            IF l \in DOMAIN registry
            THEN [@ EXCEPT !.pc = "sd_enter", !.proc = registry[l]]
            ELSE [@ EXCEPT !.pc = "unlock"]]
    /\ UNCHANGED notManager
    /\ UNCHANGED <<mmu, registry, procs>>

\* ShutdownAll, line 73: range over m.clients, in any order
ShutdownAllRange(t) ==
    /\ thread[t].op = "ShutdownAll"
    /\ \/ /\ thread[t].pc = "body"
          /\ thread' = [thread EXCEPT ![t].pc = "range", ![t].todo = DOMAIN registry]
          /\ UNCHANGED registry
       \/ /\ thread[t].pc = "range" /\ thread[t].todo # {}
          /\ \E l \in thread[t].todo :
                thread' = [thread EXCEPT ![t].pc = "sd_enter", ![t].language = l,
                                         ![t].proc = registry[l], ![t].todo = @ \ {l}]
          /\ UNCHANGED registry
       \/ /\ thread[t].pc = "range" /\ thread[t].todo = {}
          /\ registry' = <<>>
          /\ thread' = [thread EXCEPT ![t].pc = "unlock", ![t].language = ""]
    /\ UNCHANGED notManager
    /\ UNCHANGED <<mmu, procs>>

\* Client.Shutdown, lines 189-197: nothing is done for a client that is not
\* initialized; otherwise the shutdown request is sent with the context of
\* the caller, which has a deadline, and the Call ends in one of Replies
ShutdownCall(t, reply) ==
    /\ thread[t].pc = "sd_enter" /\ reply \in Replies
    /\ LET p == thread[t].proc IN
        IF ~procs[p].initialized
        THEN /\ reply = "deadline"
             /\ thread' = [thread EXCEPT ![t].pc = "sd_done", ![t].ret = "nil"]
             /\ UNCHANGED procs
        ELSE /\ (reply = "senderr") <=> ~procs[p].alive
             /\ procs' = [procs EXCEPT ![p].steps = Append(@, "shutdown")]
             /\ thread' = [thread EXCEPT ![t].pc = AfterShutdownCall(reply),
                              ![t].reply = reply,
                              ![t].ret = IF AfterShutdownCall(reply) = "sd_done"
                                         THEN "error" ELSE "none"]
    /\ UNCHANGED notManager
    /\ UNCHANGED <<mmu, registry>>

\* Client.Shutdown, line 200: c.Notify("exit", nil), its error dropped
ShutdownExit(t) ==
    /\ thread[t].pc = "sd_exit"
    /\ procs' = [procs EXCEPT ![thread[t].proc].steps = Append(@, "exit")]
    /\ thread' = [thread EXCEPT ![t].pc = "sd_stdin"]
    /\ UNCHANGED notManager
    /\ UNCHANGED <<mmu, registry>>

\* Client.Shutdown, lines 203-204: c.stdin.Close(), then c.stdout.Close()
ShutdownClose(t) ==
    /\ thread[t].pc \in {"sd_stdin", "sd_stdout"}
    /\ procs' = [procs EXCEPT ![thread[t].proc].steps =
                    Append(@, IF thread[t].pc = "sd_stdin" THEN "closeStdin"
                              ELSE "closeStdout")]
    /\ thread' = [thread EXCEPT ![t].pc =
                    IF thread[t].pc = "sd_stdin" THEN "sd_stdout" ELSE "sd_wait"]
    /\ UNCHANGED notManager
    /\ UNCHANGED <<mmu, registry>>

\* Client.Shutdown, lines 205-207: c.cmd.Wait() returns once the process
\* has exited, its error dropped; Shutdown returns nil
ShutdownWait(t) ==
    /\ thread[t].pc = "sd_wait"
    /\ ~procs[thread[t].proc].alive
    /\ procs' = [procs EXCEPT ![thread[t].proc].steps = Append(@, "wait")]
    /\ thread' = [thread EXCEPT ![t].pc = "sd_done", ![t].ret = "nil"]
    /\ UNCHANGED notManager
    /\ UNCHANGED <<mmu, registry>>

\* back in the manager: ShutdownLanguage deletes the entry (line 90),
\* ShutdownAll goes on with its range
ShutdownReturned(t) ==
    /\ thread[t].pc = "sd_done"
    /\ IF thread[t].op = "ShutdownLanguage"
       THEN /\ registry' = Delete(registry, thread[t].language)
            /\ thread' = [thread EXCEPT ![t].pc = "unlock", ![t].reply = "none",
                                          ![t].ret = "none"]
       ELSE /\ thread' = [thread EXCEPT ![t].pc = "range", ![t].reply = "none",
                                          ![t].ret = "none"]
            /\ UNCHANGED registry
    /\ UNCHANGED notManager
    /\ UNCHANGED <<mmu, procs>>

\* an analyzer process exits: on the exit notification, on the end of its
\* stdin, or by itself at any time
ProcessExit(p) ==
    /\ p \in DOMAIN procs /\ procs[p].alive
    /\ procs' = [procs EXCEPT ![p].alive = FALSE]
    /\ UNCHANGED notManager
    /\ UNCHANGED <<mmu, registry, thread>>

ManagerInitAll == IndexerInit /\ ClientInit /\ ManagerInit /\ KindIdle /\ SideIdle

ManagerNext ==
    \/ \E t \in Threads : \E op \in ManagerOps : \E l \in Requested : Enter(t, op, l)
    \/ \E t \in Threads : Lock(t)
    \/ \E t \in Threads : Unlock(t)
    \/ \E t \in Threads : GetClientLookup(t)
    \/ \E t \in Threads : \E ok \in BOOLEAN : NewClient(t, ok)
    \/ \E t \in Threads : \E ok \in BOOLEAN : Initialize(t, ok)
    \/ \E t \in Threads : RegisterClient(t)
    \/ \E t \in Threads : ShutdownLanguageLookup(t)
    \/ \E t \in Threads : ShutdownAllRange(t)
    \/ \E t \in Threads : \E reply \in Replies : ShutdownCall(t, reply)
    \/ \E t \in Threads : ShutdownExit(t)
    \/ \E t \in Threads : ShutdownClose(t)
    \/ \E t \in Threads : ShutdownWait(t)
    \/ \E t \in Threads : ShutdownReturned(t)
    \/ \E p \in 1..MaxProcs : ProcessExit(p)

SpecManager == ManagerInitAll /\ [][ManagerNext]_vars

\* p has been started, initialized, and Shutdown has not begun on it
InService(p) == procs[p].initialized /\ procs[p].steps = <<>>

\* C17: the steps of Shutdown on an initialized client are taken in the
\* order shutdown request, exit notification, close of stdin, close of
\* stdout, wait for the process; when Shutdown has returned all of them
\* were taken and it returned nil, however the shutdown request ended
C17_ShutdownStepsInOrder ==
    /\ \A p \in DOMAIN procs :
        /\ Len(procs[p].steps) <= Len(ShutdownOrder)
        /\ \A i \in DOMAIN procs[p].steps : procs[p].steps[i] = ShutdownOrder[i]
    /\ \A t \in Threads :
        (thread[t].pc = "sd_done" /\ procs[thread[t].proc].initialized) =>
            /\ procs[thread[t].proc].steps = ShutdownOrder
            /\ thread[t].ret = "nil"

\* C17 witness: Shutdown has returned nil after all its steps although the
\* analyzer never answered the shutdown request
C17_Witness ==
    \E t \in Threads :
        /\ thread[t].pc = "sd_done" /\ thread[t].reply = "deadline"
        /\ procs[thread[t].proc].steps = ShutdownOrder
        /\ thread[t].ret = "nil"

\* C17 witness: the same when the process was gone before Shutdown began,
\* so that the request and the notification could not be written
C17_WitnessDeadProcess ==
    \E t \in Threads :
        /\ thread[t].pc = "sd_done" /\ thread[t].reply = "senderr"
        /\ procs[thread[t].proc].steps = ShutdownOrder
        /\ thread[t].ret = "nil"

\* C18: a registered client is an initialized client of that language; a
\* language has at most one client in service, and it is the registered
\* one or the one being registered; GetClient returns the registered
\* client; two goroutines whose clients of one language are both in service
\* hold the same client
C18_OneClientPerLanguage ==
    /\ \A l \in DOMAIN registry :
        /\ registry[l] \in DOMAIN procs
        /\ procs[registry[l]].language = l
        /\ procs[registry[l]].initialized
    /\ \A p, q \in DOMAIN procs :
        (InService(p) /\ InService(q) /\ procs[p].language = procs[q].language)
            => p = q
    /\ \A p \in DOMAIN procs :
        InService(p) =>
            \/ /\ procs[p].language \in DOMAIN registry
               /\ registry[procs[p].language] = p
            \/ \E t \in Threads : thread[t].pc = "register" /\ thread[t].proc = p
    /\ \A t \in Threads :
        (thread[t].pc = "unlock" /\ thread[t].ret = "ok") =>
            /\ thread[t].language \in DOMAIN registry
            /\ registry[thread[t].language] = thread[t].proc
    /\ \A t, u \in Threads :
        ( /\ thread[t].pc = "returned" /\ thread[u].pc = "returned"
          /\ thread[t].language = thread[u].language
          /\ InService(thread[t].proc) /\ InService(thread[u].proc) )
            => thread[t].proc = thread[u].proc

\* C18 witness: two goroutines asked for the client of the same language,
\* one process was started for it and both hold that client, while a
\* process of an earlier client of the language has been shut down
C18_Witness ==
    /\ thread["t1"].pc = "returned" /\ thread["t2"].pc = "returned"
    /\ thread["t1"].language = thread["t2"].language
    /\ thread["t1"].proc = thread["t2"].proc
    /\ InService(thread["t1"].proc)
    /\ \E p \in DOMAIN procs :
        /\ procs[p].language = thread["t1"].language
        /\ procs[p].steps = ShutdownOrder

\* C29: when GetClient is about to return the error of a failed initialize,
\* the pipes of the process it started have been closed, the process has
\* been waited for and is not running, and it is not in the client map
C29_FailedInitializeShutsProcessDown ==
    \A t \in Threads :
        (thread[t].pc = "unlock" /\ thread[t].ret = "initerr") =>
            /\ ~procs[thread[t].proc].alive
            /\ {"closeStdin", "closeStdout", "wait"} \subseteq Range(procs[thread[t].proc].steps)
            /\ \A l \in DOMAIN registry : registry[l] # thread[t].proc

(***************************************************************************)
(* The passes over an indexed project: call graph by references, calls by  *)
(* tree-sitter, type hierarchy by tree-sitter and by the language server   *)
(***************************************************************************)
\* the passes a behaviour runs
MaxPasses == 3

\* the rows symbol extraction stores for file f, by the language server
\* (Indexer.storeSymbols) or by tree-sitter (TreeSitterIndexer.IndexFile)
ExtractedRows(f, by) ==
    IF by = "lsp" THEN storeSymbols(f, DocumentSymbolsOf(PassContent(f)), <<>>, 0)
    ELSE extractSymbols(f, <<TreeOf(PassContent(f))>>, <<>>, 0)

\* the store after the symbols of every file were extracted, each file by
\* the language server or by tree-sitter; no pass has run
PassesInit ==
    \E by \in [Files -> {"lsp", "tree-sitter"}] :
        /\ symbols = UNION {Range(ExtractedRows(f, by[f])) : f \in Files}
        /\ calls = EmptyBag /\ type_hierarchy = EmptyBag
        /\ file_meta = {[path |-> f, mod_time |-> 0, language |-> Language(f)] : f \in Files}
        /\ PipelineIdle([f \in Files |-> PassContent(f)], by)
        /\ ClientInit /\ ManagerInit /\ KindIdle /\ SideIdle

\* a pass can begin: none is between its clearing and its inserts
PassReady == pass.op # "hierarchy-lsp-cleared" /\ npasses < MaxPasses

\* the variables no pass writes
notPass ==
    <<symbols, file_meta, env, clients, proc, hist, lastInsert, indexedAt, clientVars,
      mgrVars, kindVars, queryVars>>

\* CallGraphIndexer.IndexCallGraph(language) with a client whose requests
\* are all answered
IndexCallGraphPass(l) ==
    /\ PassReady
    /\ LET rows == {c \in CallRows(symbols, l, GetFunctionSymbols(symbols, l)) :
                       InsertCallOk(symbols, c)}
       IN  /\ calls' = calls (+) SetToBag(rows)
           /\ pass' = [op |-> "callgraph", on |-> l, count |-> Cardinality(rows)]
    /\ npasses' = npasses + 1
    /\ UNCHANGED <<type_hierarchy, notPass>>

\* CallExtractor.getFunctionName for Go and Python: the id made of the
\* relative path and the name of a function definition, <<>> for another node
getFunctionName(f, node) ==
    IF node.kind \in {"function", "method"} THEN RelPath(f) \o <<"#">> \o node.name
    ELSE <<>>

\* CallExtractor.walkWithEnclosing: the enclosingFuncID the callback gets at
\* the call expression of a line, going down from node
RECURSIVE walkWithEnclosing(_, _, _, _)
walkWithEnclosing(f, node, enclosingFuncID, line) ==
    LET newFuncID == getFunctionName(f, node)
        enclosing == IF newFuncID # <<>> THEN newFuncID ELSE enclosingFuncID
        under == {i \in DOMAIN node.children :
                     node.children[i].row <= line /\ line <= node.children[i].endRow}
    IN  IF under = {} THEN enclosing
        ELSE walkWithEnclosing(f, node.children[CHOOSE i \in under : TRUE], enclosing, line)

\* CallExtractor.resolveSymbolID: the ids symbols[0].ID can be, none for ""
resolveSymbolID(syms, name, lang) ==
    LET found == IF GetSymbolByName(syms, name, {lang}) # {}
                 THEN GetSymbolByName(syms, name, {lang})
                 ELSE GetSymbolByName(syms, name, {})
    IN  {s.id : s \in FirstRows(found)}

\* CallExtractor.ExtractCalls(file): a call expression in a function whose
\* callee name resolves gives a row, which InsertCall accepts or not
ExtractCalls(f) ==
    /\ PassReady
    /\ LET sites == {x \in CallSitesOf(content[f]) :
                        /\ walkWithEnclosing(f, TreeOf(content[f]), <<>>, x.line) # <<>>
                        /\ resolveSymbolID(symbols, x.callee, Language(f)) # {}}
       IN  \E calleeID \in [sites -> {s.id : s \in symbols}] :
              /\ \A x \in sites : calleeID[x] \in resolveSymbolID(symbols, x.callee, Language(f))
              /\ LET rows == {c \in {[caller_id |-> walkWithEnclosing(f, TreeOf(content[f]),
                                                                       <<>>, x.line),
                                      callee_id |-> calleeID[x], file |-> f,
                                      line |-> x.line + 1, column |-> x.character] :
                                         x \in sites} :
                                 InsertCallOk(symbols, c)}
                 IN  /\ calls' = calls (+) SetToBag(rows)
                     /\ pass' = [op |-> "calls-ts", on |-> f, count |-> Cardinality(rows)]
    /\ npasses' = npasses + 1
    /\ UNCHANGED <<type_hierarchy, notPass>>

\* HierarchyIndexer.IndexHierarchyTreeSitter(file): a relationship whose
\* parent name resolves is inserted with the id of the first matching
\* symbol, one whose parent name does not resolve is passed over
IndexHierarchyTreeSitterPass(f) ==
    /\ PassReady
    /\ LET rels == {r \in HeritageOf(content[f]) :
                       ParentSymbols(symbols, f, r.parent) # {}}
       IN  \E first \in [rels -> {s.id : s \in symbols}] :
              /\ \A r \in rels :
                    first[r] \in {s.id : s \in FirstRows(ParentSymbols(symbols, f, r.parent))}
              /\ LET rows == {th \in {[child_id |-> SymbolID(f, <<>>, r.child),
                                       parent_id |-> first[r],
                                       relationship |-> r.relationship] : r \in rels} :
                                 InsertTypeHierarchyOk(symbols, th)}
                 IN  /\ type_hierarchy' = type_hierarchy (+) SetToBag(rows)
                     /\ pass' = [op |-> "hierarchy-ts", on |-> f, count |-> Cardinality(rows)]
    /\ npasses' = npasses + 1
    /\ UNCHANGED <<calls, notPass>>

\* GetTypeSymbols: kind IN ('class', 'interface', 'struct', 'type', 'enum')
\* AND language = ?
GetTypeSymbols(syms, lang) ==
    {s \in syms : s.kind \in {"class", "interface", "struct", "type", "enum"}
                  /\ s.language = lang}

\* a clearing that empties the table whatever the language
ClearTypeHierarchyAll(th, syms, lang) == EmptyBag

\* ClearTypeHierarchy: DELETE FROM type_hierarchy WHERE child_id IN
\* (SELECT id FROM symbols WHERE language = ?)
ClearTypeHierarchy(th, syms, lang) ==
    [r \in {x \in BagToSet(th) : ~(\E s \in syms : s.id = x.child_id /\ s.language = lang)}
        |-> th[r]]

\* the server's answer to prepareTypeHierarchy at the position of a stored
\* symbol and to supertypes of its first item: the parents of the type
\* whose name is at that position
Supertypes(sym) ==
    LET here == storeSymbols(sym.file, DocumentSymbolsOf(content[sym.file]), <<>>, 0)
        types == {here[i].name : i \in {j \in 1..Len(here) :
                     here[j].line = sym.line /\ here[j].column = sym.column}}
    IN  {r \in HeritageOf(content[sym.file]) : r.child \in types}

\* IndexHierarchyLSP(language) up to ClearTypeHierarchy
IndexHierarchyLSPClear(l) ==
    /\ PassReady
    /\ type_hierarchy' = ClearTypeHierarchy(type_hierarchy, symbols, l)
    /\ pass' = [op |-> "hierarchy-lsp-cleared", on |-> l,
                count |-> BagCardinality(type_hierarchy) - BagCardinality(type_hierarchy')]
    /\ npasses' = npasses + 1
    /\ UNCHANGED <<calls, notPass>>

\* IndexHierarchyLSP(language) from GetTypeSymbols on: a row per supertype,
\* ParentID being parent.Name; a row InsertTypeHierarchy refuses is skipped
IndexHierarchyLSP(l) ==
    /\ pass.op = "hierarchy-lsp-cleared" /\ pass.on = l
    /\ LET rows == {th \in UNION { {[child_id |-> sym.id, parent_id |-> r.parent,
                                     relationship |-> "extends"] : r \in Supertypes(sym)} :
                                   sym \in GetTypeSymbols(symbols, l) } :
                       InsertTypeHierarchyOk(symbols, th)}
       IN  /\ type_hierarchy' = type_hierarchy (+) SetToBag(rows)
           /\ pass' = [op |-> "hierarchy-lsp", on |-> l, count |-> Cardinality(rows)]
    /\ UNCHANGED <<calls, npasses, notPass>>

PassesNext ==
    \/ \E l \in Languages : IndexCallGraphPass(l)
    \/ \E f \in Files : ExtractCalls(f)
    \/ \E f \in Files : IndexHierarchyTreeSitterPass(f)
    \/ \E l \in Languages : IndexHierarchyLSPClear(l)
    \/ \E l \in Languages : IndexHierarchyLSP(l)

SpecPasses == PassesInit /\ [][PassesNext]_vars

\* GetImplementationsByName: the symbols joined to a type_hierarchy row as
\* its child, the row's parent_id being the id of a symbol of that name
GetImplementationsByName(syms, th, name) ==
    {s \in syms : \E row \in BagToSet(th) : \E parent \in syms :
        s.id = row.child_id /\ row.parent_id = parent.id /\ parent.name = name}

\* C23: after the tree-sitter hierarchy pass over a file, a type edge of
\* the file whose parent name resolves to no stored symbol is stored with
\* that name as its parent, and GetImplementationsByName(parent name) gives
\* the child
C23_UnresolvedParentStoredByName ==
    pass.op = "hierarchy-ts" =>
        \A r \in HeritageOf(content[pass.on]) :
            ( /\ ParentSymbols(symbols, pass.on, r.parent) = {}
              /\ \E s \in symbols : s.id = SymbolID(pass.on, <<>>, r.child) ) =>
                /\ \E row \in BagToSet(type_hierarchy) :
                      /\ row.child_id = SymbolID(pass.on, <<>>, r.child)
                      /\ row.parent_id = r.parent
                /\ \E s \in GetImplementationsByName(symbols, type_hierarchy, r.parent) :
                      s.id = SymbolID(pass.on, <<>>, r.child)

\* C24: whatever passes have run, both ids of every calls row are ids of
\* stored symbols, no calls row is at a call site whose callee name
\* resolves to no stored symbol, and every stored symbol is a row of
\* symbol extraction (no placeholder was added)
C24_CallsReferToStoredSymbols ==
    /\ \A c \in BagToSet(calls) :
          /\ \E s \in symbols : s.id = c.caller_id
          /\ \E s \in symbols : s.id = c.callee_id
    /\ \A f \in Files : \A x \in CallSitesOf(content[f]) :
          resolveSymbolID(symbols, x.callee, Language(f)) = {} =>
              ~\E c \in BagToSet(calls) :
                  c.file = f /\ c.line = x.line + 1 /\ c.column = x.character
    /\ \A s \in symbols :
          \E by \in {"lsp", "tree-sitter"} : s \in Range(ExtractedRows(s.file, by))

\* C24 witness: the tree-sitter call pass has just written rows for a file
\* that also has a call to a name that resolves to nothing, after another
\* pass had written calls
C24_Witness ==
    /\ pass.op = "calls-ts" /\ pass.count > 0
    /\ BagCardinality(calls) > pass.count
    /\ \E x \in CallSitesOf(content[pass.on]) :
          resolveSymbolID(symbols, x.callee, Language(pass.on)) = {}

\* C26: the step of the language-server hierarchy pass for language L that
\* clears leaves exactly the type_hierarchy rows whose child symbol is not
\* of language L, and symbols, calls and file_meta as they were; the pass
\* inserts only after that step, into a table without rows of language L
C26_ClearsTheLanguageFirst ==
    [][ /\ (npasses' # npasses /\ pass'.op = "hierarchy-lsp-cleared") =>
              /\ type_hierarchy' =
                    [r \in {x \in BagToSet(type_hierarchy) :
                               \A s \in symbols : s.id = x.child_id => s.language # pass'.on}
                        |-> type_hierarchy[r]]
              /\ UNCHANGED <<symbols, calls, file_meta>>
        /\ (pass'.op = "hierarchy-lsp" /\ (pass.op # "hierarchy-lsp" \/ npasses' # npasses)) =>
              /\ pass.op = "hierarchy-lsp-cleared" /\ pass.on = pass'.on
              /\ \A x \in BagToSet(type_hierarchy) : \A s \in symbols :
                    s.id = x.child_id => s.language # pass'.on ]_vars

\* C26 witness: the clearing for a language has just removed rows and rows
\* of the other language are still there
C26_Witness ==
    /\ pass.op = "hierarchy-lsp-cleared" /\ pass.count > 0
    /\ \E x \in BagToSet(type_hierarchy) : \E s \in symbols :
          s.id = x.child_id /\ s.language # pass.on

\* C27: every row the language-server call-graph pass for a language adds
\* has as callee a function symbol of the language that the call site
\* names, as caller a function symbol of the language in the row's file
\* whose lines line..end_line contain the row's line, and is not on the
\* callee's declaration line; a reference in no function gives no row
C27_CallerCoversTheReference ==
    [][ (npasses' # npasses /\ pass'.op = "callgraph") =>
          LET fns == GetFunctionSymbols(symbols, pass'.on)
              new == BagToSet(calls' (-) calls)
          IN  /\ \A r \in new : \E callee \in fns : \E caller \in fns :
                    /\ callee.id = r.callee_id /\ caller.id = r.caller_id
                    /\ caller.file = r.file
                    /\ caller.line <= r.line /\ r.line <= caller.end_line
                    /\ ~(r.file = callee.file /\ r.line = callee.line)
                    /\ \E x \in CallSitesOf(content[r.file]) :
                          /\ x.line + 1 = r.line /\ x.character = r.column
                          /\ x.callee = callee.name /\ x.calleeFile = callee.file
              /\ \A f \in Files : \A x \in CallSitesOf(content[f]) :
                    (~\E s \in fns : s.file = f /\ s.line <= x.line + 1
                                     /\ x.line + 1 <= s.end_line) =>
                        ~\E r \in new : r.file = f /\ r.line = x.line + 1
                                        /\ r.column = x.character ]_vars

\* C27 witness: the call-graph pass for Go has written the call of A in B,
\* while the call of A on A's declaration line and the call of A outside
\* every function have no row
C27_Witness ==
    /\ pass.op = "callgraph" /\ pass.on = "go" /\ pass.count > 0
    /\ \E c \in BagToSet(calls) :
          c.caller_id = SymbolID("a.go", <<>>, <<"B">>) /\ c.line = 6
    /\ ~\E c \in BagToSet(calls) : c.file = "a.go" /\ c.line \in {1, 15}

\* the nodes of a tree that define a function or a method
RECURSIVE FunctionNodes(_)
FunctionNodes(nodes) ==
    IF nodes = <<>> THEN {}
    ELSE (IF Head(nodes).kind \in {"function", "method"} THEN {Head(nodes)} ELSE {})
            \cup FunctionNodes(Head(nodes).children) \cup FunctionNodes(Tail(nodes))

\* C30: after the tree-sitter call pass over a file, for every function
\* definition of the file the caller id of the pass is the id of the
\* stored symbol of that definition, and every call in it whose callee
\* resolves has its row in calls
C30_CallerIdIsTheStoredId ==
    pass.op = "calls-ts" =>
        \A node \in FunctionNodes(<<TreeOf(content[pass.on])>>) :
            /\ \E s \in symbols :
                  /\ s.file = pass.on /\ s.name = node.name /\ s.line = node.row + 1
                  /\ s.id = getFunctionName(pass.on, node)
            /\ \A x \in CallSitesOf(content[pass.on]) :
                  ( /\ walkWithEnclosing(pass.on, TreeOf(content[pass.on]), <<>>, x.line)
                          = getFunctionName(pass.on, node)
                    /\ resolveSymbolID(symbols, x.callee, Language(pass.on)) # {} ) =>
                      \E c \in BagToSet(calls) :
                          c.file = pass.on /\ c.line = x.line + 1 /\ c.column = x.character
====
